---- MODULE Spec2Model ----
(***************************************************************************)
(* Model of the cell-reconciliation pipeline of Excel-Processing-Module:   *)
(*   - HTMLAnalyzer.process_html_file_in_chunks, count_html_rows           *)
(*   - ExcelToHTMLConverter.find_merged_ranges, convert_worksheet_to_html, *)
(*     generate_cell_style                        (src/excel_processor.py) *)
(*   - update_excel_sheet, update_excel_from_json,                         *)
(*     clean_sheet_name_for_json                                           *)
(*       (src/final_json_from_outputFolder_to_xlsx_filling.py)             *)
(* Python values are tagged records, text is a sequence of one-character   *)
(* strings, a dict is a function over its keys.                            *)
(***************************************************************************)
EXTENDS Integers, Sequences, FiniteSets, TLC

VARIABLES
    \* ---- HTMLAnalyzer.process_html_file_in_chunks
    client,            \* self.client: "ok", or "none" when OpenAI() failed
    row_markers,       \* the numbers of the id="row<n>" markers, in text order
    chunk_size,        \* the chunk_size argument
    pc,                \* "idle" | "loop" | "save" | "done"
    total_rows,        \* local total_rows
    num_chunks,        \* local num_chunks
    chunk_num,         \* loop variable of range(num_chunks)
    windows,           \* the (row_start, row_end) of every call made so far
    responses,         \* what the reasoning service answered to each call
    all_cell_mappings, \* local all_cell_mappings
    final_json,        \* the consolidated <base>.json artifact
    result,            \* the returned bool, "none" while running
    chunk_files,       \* the _chunk_k files in Output_folder: (k, extension)
    \* ---- ExcelToHTMLConverter.find_merged_ranges
    g_ranges,          \* worksheet.merged_cells.ranges, in iteration order
    g_map,             \* the returned dict
    g_pc,              \* "idle" | "done"
    \* ---- update_excel_sheet
    ws,                \* the live worksheet: merged ranges and cell values
    cell_data,         \* the patch list
    applications,      \* how many times update_excel_sheet has run on ws
    updates_made,      \* its last return value
    write_log,         \* the "Updated cell ..." lines of its last run
    after_first,       \* the cell values after its first run
    \* ---- update_excel_from_json
    workbook,          \* the sheets of the workbook file
    json_files,        \* per sheet: the matching JSON artifact
    b_pc,              \* "idle" | "done"
    workbook_updated,  \* local workbook_updated
    total_updates,     \* local total_updates
    saved,             \* whether workbook.save() ran
    \* ---- clean_sheet_name_for_json
    sheet_name,        \* the sheet_name argument
    cleaned,           \* the returned name
    n_pc,              \* "idle" | "done"
    \* ---- ExcelToHTMLConverter.convert_worksheet_to_html, count_html_rows
    worksheet,         \* the worksheet rendered
    html_parts,        \* local html_parts; the lone marker of an empty sheet
    r_pc,              \* "idle" | "rendered" | "counted"
    counted,           \* what count_html_rows returns for the markup
    \* ---- ExcelToHTMLConverter.generate_cell_style
    styled_cell,       \* the style attributes of the cell argument
    returned_style,    \* the returned class name or inline style
    st_pc,             \* "idle" | "done"
    \* ---- main, process_complete_workflow, process_all_files
    input_folder,      \* whether Input_Folder exists
    data_sources,      \* whether DATA_SOURCES exists
    api_key,           \* whether OPENAI_API_KEY is set
    output_folder,     \* whether Output_folder exists
    excel_files,       \* how many workbooks Input_Folder holds
    text_files,        \* the worksheets with a text file in DATA_SOURCES
    json_artifacts,    \* the worksheets with a JSON artifact in Output_folder
    html_files,        \* the worksheets rendered into html_outputs
    matches,           \* local matches
    pair_index,        \* loop variable i of process_all_files
    processed,         \* the pairs handed to process_html_file_in_chunks
    outcomes,          \* how each of those calls ended
    successful,        \* local successful
    failed,            \* local failed
    workflow_success,  \* what process_complete_workflow returned, or "none"
    saved_books,       \* the workbooks saved into Updated_excel_workbooks
    f_pc,              \* where main is
    \* ---- the reading of the artifacts (count_html_rows and
    \*      analyze_html_table_with_openai)
    artifact_bytes,    \* the bytes of the artifacts of two files in a row
    read_results,      \* per file handled: the text read, or the failure
    d_pc,              \* "idle" | "done"
    \* ---- ExcelToHTMLConverter.convert_worksheet_to_separate_html
    safe_worksheet_name, \* local safe_worksheet_name
    fn_pc,             \* "idle" | "done"
    \* ---- get_merged_cell_mapping, in the applier's load of the workbook
    applier_ranges,    \* worksheet.merged_cells.ranges, in iteration order
    applier_map,       \* the returned dict
    m_pc               \* "idle" | "done"

chunkVars == <<client, row_markers, chunk_size, pc, total_rows, num_chunks,
               chunk_num, windows, responses, all_cell_mappings, final_json,
               result, chunk_files>>
geomVars  == <<g_ranges, g_map, g_pc>>
sheetVars == <<ws, cell_data, applications, updates_made, write_log,
               after_first>>
batchVars == <<workbook, json_files, b_pc, workbook_updated, total_updates,
               saved>>
nameVars  == <<sheet_name, cleaned, n_pc>>
renderVars == <<worksheet, html_parts, r_pc, counted>>
styleVars == <<styled_cell, returned_style, st_pc>>
flowVars == <<input_folder, data_sources, api_key, output_folder,
              excel_files, text_files, json_artifacts, html_files, matches,
              pair_index, processed, outcomes, successful, failed,
              workflow_success, saved_books, f_pc>>
\* the variables of the operations modelled further down
decodeVars == <<artifact_bytes, read_results, d_pc>>
fileNameVars == <<safe_worksheet_name, fn_pc>>
mappingVars == <<applier_ranges, applier_map, m_pc>>
extVars == <<styleVars, flowVars, decodeVars, fileNameVars, mappingVars>>
vars == <<chunkVars, geomVars, sheetVars, batchVars, nameVars, renderVars,
          extVars>>

----------------------------------------------------------------------------
(* Bounds of the model.                                                    *)

MaxRows          == 3   \* rows of a rendered table (SpecChunks)
MaxChunk         == 2   \* chunk_size (SpecChunks)
MaxWindowPatches == 1   \* patches in one response (SpecChunks)
PartRows         == 65  \* rows of a rendered table (SpecPartition)
PartChunk        == 30  \* chunk_size (SpecPartition)
GeoRows          == 2   \* rows of a worksheet (SpecGeometry)
GeoCols          == 2   \* columns of a worksheet (SpecGeometry)
MaxRanges        == 2   \* merged ranges of a worksheet (SpecGeometry)
MaxPatches       == 2   \* patches in one patch list (SpecSheet)
MaxSheets        == 2   \* sheets of a workbook (SpecBatch)
MaxFilePatches   == 1   \* patches in one JSON artifact (SpecBatch)
MaxNameLen       == 4   \* characters of a sheet name (SpecName)
MaxBooks         == 2   \* workbooks in Input_Folder (SpecWorkflow)
MaxBytes         == 2   \* bytes of an artifact (SpecDecode)

----------------------------------------------------------------------------
(* Python values.                                                          *)

PyNone     == [t |-> "none",  s |-> <<>>, n |-> 0, d |-> 0]
PyStr(cs)  == [t |-> "str",   s |-> cs,   n |-> 0, d |-> 0]
PyInt(k)   == [t |-> "int",   s |-> <<>>, n |-> k, d |-> 0]
\* the float k / 10^dp, with k not a multiple of 10 unless dp = 0
PyFloat(k, dp) == [t |-> "float", s |-> <<>>, n |-> k, d |-> dp]

Max(a, b) == IF a >= b THEN a ELSE b
Min(a, b) == IF a <= b THEN a ELSE b

\* max() of a non-empty list
SeqMax(q) ==
    CHOOSE m \in {q[i] : i \in 1..Len(q)} : \A i \in 1..Len(q) : m >= q[i]

RECURSIVE Concat(_)
Concat(qq) == IF qq = <<>> THEN <<>> ELSE Head(qq) \o Concat(Tail(qq))

\* all sequences over S of length at most n
SeqsUpTo(S, n) == UNION {[1..k -> S] : k \in 0..n}

----------------------------------------------------------------------------
(* HTMLAnalyzer: the chunked reconciliation of one rendered table.         *)

\* A CellPatch as the reasoning service returns it (the context string is
\* carried along unchanged and is left out).
PatchPool ==
    { [cell_reference |-> PyStr(<<"A", "1">>), value |-> PyStr(<<"x">>)],
      [cell_reference |-> PyStr(<<"A", "1">>), value |-> PyStr(<<"y">>)],
      [cell_reference |-> PyStr(<<"B", "2">>), value |-> PyStr(<<"x">>)] }

\* What one call of the reasoning service can produce:
\*   "throw"     client.chat.completions.create raises
\*   "prose"     text with no JSON array in it, not JSON itself
\*   "array"     text holding a JSON array of {cell_reference, value, context}
\*   "malformed" text holding a JSON array with an object lacking "context"
Responses(n) ==
    [kind : {"throw", "prose"}, patches : {<<>>}]
    \cup [kind : {"array"}, patches : SeqsUpTo(PatchPool, n)]
    \cup [kind : {"malformed"}, patches : [1..1 -> PatchPool]]

\* lines 815-828: without a client no call is made and the window fails the
\* way a raising call does
Answers(cl, n) ==
    IF cl = "none"
    THEN {[kind |-> "throw", patches |-> <<>>]}
    ELSE Responses(n)

CountLastMut(markers) ==
    IF markers = <<>> THEN 0 ELSE markers[Len(markers)]
\* count_html_rows: the largest row id found, 0 when there is none
count_html_rows(markers) ==
    IF markers = <<>> THEN 0 ELSE SeqMax(markers)

\* num_chunks = (total_rows + chunk_size - 1) // chunk_size
NumChunks(rows, size) == (rows + size - 1) \div size

RowStartMut(k, size) == k * size
\* row_start = (chunk_num * chunk_size) + 1
RowStart(k, size) == (k * size) + 1

\* every window reaching to the last row
RowEndMut(k, size, rows) == rows

\* row_end = min((chunk_num + 1) * chunk_size, total_rows)
RowEnd(k, size, rows) == Min((k + 1) * size, rows)

\* analyze_html_table_with_openai: what it returns and the chunk JSON it
\* leaves. A missing client and a raising call end in the outer except; text
\* without JSON ends in the JSONDecodeError handler; an object lacking a key
\* raises KeyError while the summary is written, after the chunk JSON was.
AnalyzeMut(cl, resp) ==
    IF cl = "none" \/ resp.kind = "throw"
    THEN [outcome |-> "raise", chunk_json |-> <<>>]
    ELSE IF resp.kind = "prose"
    THEN [outcome |-> "raise", chunk_json |-> <<>>]
    ELSE IF resp.kind = "malformed"
    THEN [outcome |-> "false", chunk_json |-> resp.patches]
    ELSE [outcome |-> "true", chunk_json |-> resp.patches]
analyze_html_table_with_openai(cl, resp) ==
    IF cl = "none" \/ resp.kind = "throw"
    THEN [outcome |-> "false", chunk_json |-> <<>>]
    ELSE IF resp.kind = "prose"
    THEN [outcome |-> "false", chunk_json |-> <<>>]
    ELSE IF resp.kind = "malformed"
    THEN [outcome |-> "false", chunk_json |-> resp.patches]
    ELSE [outcome |-> "true", chunk_json |-> resp.patches]

ExtendFrontMut(acc, chunk_mappings) == chunk_mappings \o acc
ExtendMut(acc, chunk_mappings) ==
    acc \o SelectSeq(chunk_mappings,
             LAMBDA p : \A i \in 1..Len(acc) :
                          acc[i].cell_reference # p.cell_reference)
\* all_cell_mappings.extend(chunk_mappings)
Extend(acc, chunk_mappings) == acc \o chunk_mappings

FileSucceededMut(acc, resps) ==
    \E i \in 1..Len(resps) : resps[i].kind = "array"
\* if all_cell_mappings: ... return True / else: return False
FileSucceeded(acc, resps) == acc # <<>>

NoRowsResultMut == TRUE
\* lines 610-612: if total_rows == 0: ... return False
NoRowsResult == FALSE

\* The files analyze_html_table_with_openai writes for a window. A parsed
\* answer gives the .csv (lines 844-845; save_as_excel, lines 848-849, finds
\* no row and column among the patches and falls back to the same .csv),
\* the .json (lines 852-854) and the .txt (line 860); an object lacking
\* "context" raises KeyError inside the summary, after all three exist;
\* text without JSON gives the .txt of lines 877-882; a call that raises
\* writes nothing.
ChunkFilesWritten(cl, resp) ==
    IF cl = "none" \/ resp.kind = "throw" THEN {}
    ELSE IF resp.kind = "prose" THEN {"txt"}
    ELSE {"csv", "json", "txt"}

\* lines 640-656: after a window that returned True the loop removes its
\* .txt and its .json, and nothing else
ChunkFilesLeft(cl, resp) ==
    IF analyze_html_table_with_openai(cl, resp).outcome = "true"
    THEN ChunkFilesWritten(cl, resp) \ {"txt", "json"}
    ELSE ChunkFilesWritten(cl, resp)

\* lines 606-620: count the rows, return False when there are none
Start ==
    /\ pc = "idle"
    /\ total_rows' = count_html_rows(row_markers)
    /\ IF total_rows' = 0
       THEN /\ pc' = "done"
            /\ result' = NoRowsResult
            /\ num_chunks' = 0
       ELSE /\ pc' = "loop"
            /\ result' = result
            /\ num_chunks' = NumChunks(total_rows', chunk_size)
    /\ UNCHANGED <<client, row_markers, chunk_size, chunk_num, windows,
                   responses, all_cell_mappings, final_json, chunk_files>>
    /\ UNCHANGED <<geomVars, sheetVars, batchVars, nameVars, renderVars>>
    /\ UNCHANGED extVars

\* lines 623-656: one iteration of the loop over the chunks
ProcessChunk ==
    /\ pc = "loop"
    /\ chunk_num < num_chunks
    /\ \E resp \in Answers(client, MaxWindowPatches) :
         LET row_start == RowStart(chunk_num, chunk_size)
             row_end   == RowEnd(chunk_num, chunk_size, total_rows)
             r         == analyze_html_table_with_openai(client, resp)
         IN  /\ windows' = Append(windows, <<row_start, row_end>>)
             /\ responses' = Append(responses, resp)
             /\ chunk_files' = chunk_files
                    \cup ({chunk_num + 1} \X ChunkFilesLeft(client, resp))
             /\ IF r.outcome = "raise"
                THEN \* the except of lines 696-698
                     /\ pc' = "done"
                     /\ result' = FALSE
                     /\ UNCHANGED <<all_cell_mappings, chunk_num>>
                ELSE /\ all_cell_mappings' =
                          IF r.outcome = "true"
                          THEN Extend(all_cell_mappings, r.chunk_json)
                          ELSE all_cell_mappings
                     /\ chunk_num' = chunk_num + 1
                     /\ pc' = IF chunk_num + 1 < num_chunks
                              THEN "loop" ELSE "save"
                     /\ UNCHANGED result
    /\ UNCHANGED <<client, row_markers, chunk_size, total_rows, num_chunks,
                   final_json>>
    /\ UNCHANGED <<geomVars, sheetVars, batchVars, nameVars, renderVars>>
    /\ UNCHANGED extVars

\* lines 658-694: persist the combined results, or report that none exist
Finish ==
    /\ pc = "save"
    /\ IF FileSucceeded(all_cell_mappings, responses)
       THEN /\ final_json' = [exists |-> TRUE, data |-> all_cell_mappings]
            /\ result' = TRUE
       ELSE /\ final_json' = final_json
            /\ result' = FALSE
    /\ pc' = "done"
    /\ UNCHANGED <<client, row_markers, chunk_size, total_rows, num_chunks,
                   chunk_num, windows, responses, all_cell_mappings,
                   chunk_files>>
    /\ UNCHANGED <<geomVars, sheetVars, batchVars, nameVars, renderVars>>
    /\ UNCHANGED extVars

ChunkIdle ==
    /\ client = "ok"
    /\ row_markers = <<>>
    /\ chunk_size = 1
    /\ pc = "off"
    /\ total_rows = 0
    /\ num_chunks = 0
    /\ chunk_num = 0
    /\ windows = <<>>
    /\ responses = <<>>
    /\ all_cell_mappings = <<>>
    /\ final_json = [exists |-> FALSE, data |-> <<>>]
    /\ result = "none"
    /\ chunk_files = {}

GeomIdle ==
    /\ g_ranges = <<>>
    /\ g_map = <<>>
    /\ g_pc = "off"

SheetIdle ==
    /\ ws = <<>>
    /\ cell_data = <<>>
    /\ applications = 0
    /\ updates_made = 0
    /\ write_log = <<>>
    /\ after_first = <<>>

BatchIdle ==
    /\ workbook = <<>>
    /\ json_files = <<>>
    /\ b_pc = "off"
    /\ workbook_updated = FALSE
    /\ total_updates = 0
    /\ saved = FALSE

NameIdle ==
    /\ sheet_name = <<>>
    /\ cleaned = <<>>
    /\ n_pc = "off"

RenderIdle ==
    /\ worksheet = <<>>
    /\ html_parts = <<>>
    /\ r_pc = "off"
    /\ counted = 0

StyleIdle ==
    /\ styled_cell = <<>>
    /\ returned_style = <<>>
    /\ st_pc = "off"

FlowIdle ==
    /\ input_folder = FALSE /\ data_sources = FALSE /\ api_key = FALSE
    /\ output_folder = FALSE
    /\ excel_files = 0
    /\ text_files = {} /\ json_artifacts = {} /\ html_files = {}
    /\ matches = <<>>
    /\ pair_index = 0
    /\ processed = <<>> /\ outcomes = <<>>
    /\ successful = 0 /\ failed = 0
    /\ workflow_success = "none"
    /\ saved_books = {}
    /\ f_pc = "off"

DecodeIdle ==
    /\ artifact_bytes = <<>>
    /\ read_results = <<>>
    /\ d_pc = "off"

FileNameIdle ==
    /\ safe_worksheet_name = <<>>
    /\ fn_pc = "off"

MappingIdle ==
    /\ applier_ranges = <<>>
    /\ applier_map = <<>>
    /\ m_pc = "off"

ExtIdle ==
    StyleIdle /\ FlowIdle /\ DecodeIdle /\ FileNameIdle /\ MappingIdle

\* the row markers of a table of n rows, as rendered and in reverse order
Ascending(n)  == [i \in 1..n |-> i]
Descending(n) == [i \in 1..n |-> n + 1 - i]

ChunkStart(rows, sizes, clients, orders) ==
    /\ client \in clients
    /\ \E n \in rows : row_markers \in {o[n] : o \in orders}
    /\ chunk_size \in sizes
    /\ pc = "idle"
    /\ total_rows = 0
    /\ num_chunks = 0
    /\ chunk_num = 0
    /\ windows = <<>>
    /\ responses = <<>>
    /\ all_cell_mappings = <<>>
    /\ final_json = [exists |-> FALSE, data |-> <<>>]
    /\ result = "none"
    /\ chunk_files = {}

InitChunks ==
    /\ ChunkStart(0..MaxRows, 1..MaxChunk, {"ok", "none"},
                  {[n \in 0..MaxRows |-> Ascending(n)],
                   [n \in 0..MaxRows |-> Descending(n)]})
    /\ GeomIdle /\ SheetIdle /\ BatchIdle /\ NameIdle
    /\ RenderIdle
    /\ ExtIdle

NextChunks == Start \/ ProcessChunk \/ Finish

SpecChunks == InitChunks /\ [][NextChunks]_vars

\* The partition alone, on tables as large as the documented example: the
\* client is missing, so every window is dispatched and fails.
InitPartition ==
    /\ ChunkStart(0..PartRows, 1..PartChunk, {"none"},
                  {[n \in 0..PartRows |-> Ascending(n)]})
    /\ GeomIdle /\ SheetIdle /\ BatchIdle /\ NameIdle
    /\ RenderIdle
    /\ ExtIdle

SpecPartition == InitPartition /\ [][NextChunks]_vars

\* The row count alone, on any text: the markers found are any ids, in any
\* order, repeated or missing; the client is missing.
InitCount ==
    /\ client = "none"
    /\ row_markers \in SeqsUpTo(1..MaxRows, MaxRows)
    /\ chunk_size \in 1..MaxChunk
    /\ pc = "idle"
    /\ total_rows = 0
    /\ num_chunks = 0
    /\ chunk_num = 0
    /\ windows = <<>>
    /\ responses = <<>>
    /\ all_cell_mappings = <<>>
    /\ final_json = [exists |-> FALSE, data |-> <<>>]
    /\ result = "none"
    /\ chunk_files = {}
    /\ GeomIdle /\ SheetIdle /\ BatchIdle /\ NameIdle /\ RenderIdle
    /\ ExtIdle

SpecCount == InitCount /\ [][NextChunks]_vars

----------------------------------------------------------------------------
(* Claims about process_html_file_in_chunks.                               *)

\* the least k with k * size >= n
CeilDiv(n, size) ==
    CHOOSE k \in 0..n : k * size >= n /\ (k = 0 \/ (k - 1) * size < n)

LoopOver == pc \in {"save", "done"}

\* window k was successfully parsed: the call was made, returned, and its
\* text held a JSON array of complete patch objects
Parsed(k) == client = "ok" /\ responses[k].kind = "array"

\* C1: for N >= 1 rows and chunk_size >= 1 the windows dispatched are
\* ceil(N / chunk_size) in number, consecutive and non-overlapping, each
\* within 1..N and at most chunk_size rows long, and every row of 1..N lies
\* in exactly one of them; while the loop runs the windows so far are such a
\* prefix.
C1_WindowsPartitionRows ==
    (pc # "off" /\ total_rows >= 1) =>
        /\ \A k \in 1..Len(windows) :
              /\ 1 <= windows[k][1]
              /\ windows[k][1] <= windows[k][2]
              /\ windows[k][2] <= total_rows
              /\ windows[k][2] - windows[k][1] + 1 <= chunk_size
        /\ Len(windows) >= 1 => windows[1][1] = 1
        /\ \A k \in 1..(Len(windows) - 1) :
              windows[k + 1][1] = windows[k][2] + 1
        /\ LoopOver =>
              /\ Len(windows) = CeilDiv(total_rows, chunk_size)
              /\ \A r \in 1..total_rows :
                    Cardinality({k \in 1..Len(windows) :
                        windows[k][1] <= r /\ r <= windows[k][2]}) = 1

\* the documented example: 65 rows in chunks of 30 give 1-30, 31-60, 61-65
C1_Witness ==
    /\ pc = "done"
    /\ total_rows = 65
    /\ chunk_size = 30
    /\ windows = << <<1, 30>>, <<31, 60>>, <<61, 65>> >>

\* the patches of the successfully parsed windows whose reference is ref,
\* window by window
ReturnedFor(ref) ==
    Concat([k \in 1..Len(responses) |->
              IF Parsed(k)
              THEN SelectSeq(responses[k].patches,
                             LAMBDA p : p.cell_reference = ref)
              ELSE <<>>])

Refs == {p.cell_reference : p \in PatchPool}

C6_Step ==
    (pc = "loop" /\ Len(responses') = Len(responses) + 1
       /\ (client = "none"
             \/ responses'[Len(responses')].kind \in {"throw", "prose"}))
    => /\ all_cell_mappings' = all_cell_mappings
       /\ chunk_num' = chunk_num + 1
       /\ pc' \in {"loop", "save"}
       /\ result' = "none"

\* the loop was not cut short, and what the parsed windows returned is kept
C6_State ==
    /\ (LoopOver /\ total_rows >= 1) => Len(windows) = num_chunks
    /\ pc = "done" => chunk_num = num_chunks
    /\ \A k \in 1..Len(responses) :
          Parsed(k) =>
              \A i \in 1..Len(responses[k].patches) :
                  \E j \in 1..Len(all_cell_mappings) :
                      all_cell_mappings[j] = responses[k].patches[i]

\* C6: a window whose call throws or whose response holds no JSON array adds
\* nothing to the accumulated patches and ends in the loop's next iteration
\* (no exception leaves it); the loop is never cut short, so every window is
\* dispatched, and every successfully parsed window's patches are in the
\* final PatchSet whatever failed before it.
C6_FailedWindowIsContained == [][C6_Step]_vars /\ [](C6_State)

\* a throwing call and a prose answer, then a window whose patch is persisted
C6_Witness ==
    /\ pc = "done"
    /\ result = TRUE
    /\ Len(responses) = 3
    /\ responses[1].kind = "throw"
    /\ responses[2].kind = "prose"
    /\ responses[3].kind = "array"
    /\ final_json.data = responses[3].patches
    /\ final_json.data # <<>>

\* C7 as stated: the file is reported successful exactly when some window was
\* successfully parsed.
C7_SuccessIffParsedWindow ==
    pc = "done" =>
        (result = TRUE <=> \E k \in 1..Len(responses) : Parsed(k))

\* C7 amended: the file is reported successful exactly when some successfully
\* parsed window returned at least one patch; otherwise (no window parsed, or
\* every parsed window returned an empty array) it is reported failed.
C7_SuccessIffSomePatch ==
    pc = "done" =>
        /\ result \in BOOLEAN
        /\ result = TRUE <=>
              \E k \in 1..Len(responses) :
                  Parsed(k) /\ responses[k].patches # <<>>

\* every window was parsed, all returned [], and the file is reported failed
C7_Witness ==
    /\ pc = "done"
    /\ result = FALSE
    /\ Len(responses) >= 1
    /\ \A k \in 1..Len(responses) :
          Parsed(k) /\ responses[k].patches = <<>>

\* C8 as stated: a table without row markers is a no-op reported as success.
C8_NoRowsIsSuccess ==
    (pc = "done" /\ row_markers = <<>>) =>
        /\ result = TRUE
        /\ windows = <<>>
        /\ all_cell_mappings = <<>>

\* C8 amended: a table without row markers dispatches no window and persists
\* no patch set, and the file is reported failed.
C8_NoRowsIsFailure ==
    (pc = "done" /\ row_markers = <<>>) =>
        /\ result = FALSE
        /\ windows = <<>>
        /\ responses = <<>>
        /\ all_cell_mappings = <<>>
        /\ ~final_json.exists

C8_Witness ==
    /\ pc = "done"
    /\ row_markers = <<>>
    /\ total_rows = 0
    /\ client = "ok"

\* C9: the accumulated patches, and the PatchSet persisted from them, are the
\* patch lists of the successfully parsed windows concatenated in window
\* order; a failed window's patches are not among them.
C9_ConcatenationOfParsedWindows ==
    LET expected ==
          Concat([k \in 1..Len(responses) |->
                    IF Parsed(k) THEN responses[k].patches ELSE <<>>])
    IN  /\ all_cell_mappings = expected
        /\ final_json.exists => final_json.data = expected

\* a window that failed after returning a patch, between two parsed windows
C9_Witness ==
    /\ final_json.exists
    /\ Len(responses) = 3
    /\ responses[1].kind = "array"
    /\ responses[2].kind = "malformed"
    /\ responses[3].kind = "array"
    /\ Len(final_json.data) = 2
    /\ final_json.data[1] # final_json.data[2]
    /\ responses[2].patches[1] # final_json.data[1]
    /\ responses[2].patches[1] # final_json.data[2]

\* the markers are row1 .. rowN, each once, in some order
RowsOneToN(markers) ==
    /\ {markers[i] : i \in 1..Len(markers)} = 1..Len(markers)
    /\ markers # <<>>

\* C16: for a text whose row markers are row1 .. rowN, in whatever order
\* they occur, count_html_rows returns N.
C16_CountIsNInAnyOrder ==
    (pc \in {"loop", "save", "done"} /\ RowsOneToN(row_markers))
        => total_rows = Len(row_markers)

\* the markers row2, row3, row1 were counted as 3 rows
C16_Witness ==
    /\ pc = "done"
    /\ row_markers = <<2, 3, 1>>
    /\ total_rows = 3
    /\ Len(windows) = NumChunks(3, chunk_size)

----------------------------------------------------------------------------
(* Worksheet geometry: merged ranges.                                      *)

\* a MergedRange (min_row, min_col, max_row, max_col) within rows x cols
RangesIn(rows, cols) ==
    {r \in [min_row : 1..rows, min_col : 1..cols,
            max_row : 1..rows, max_col : 1..cols] :
        r.min_row <= r.max_row /\ r.min_col <= r.max_col}

\* range(min_row, max_row + 1) x range(min_col, max_col + 1)
CellsOf(r) == (r.min_row .. r.max_row) \X (r.min_col .. r.max_col)

TopLeft(r) == <<r.min_row, r.min_col>>

NonOverlapping(ranges) ==
    \A i, j \in 1..Len(ranges) :
        i # j => CellsOf(ranges[i]) \cap CellsOf(ranges[j]) = {}

\* a dict entry of find_merged_ranges; colspan / rowspan 0 stands for None
RootEntry(colspan, rowspan) ==
    [is_merged_root |-> TRUE, hidden |-> FALSE,
     colspan |-> colspan, rowspan |-> rowspan]
HiddenEntry ==
    [is_merged_root |-> FALSE, hidden |-> TRUE, colspan |-> 0, rowspan |-> 0]

SpanMut(lo, hi) == IF hi - lo > 1 THEN hi - lo ELSE 0
\* colspan = max_col - min_col + 1; colspan if colspan > 1 else None
Span(lo, hi) == IF hi - lo + 1 > 1 THEN hi - lo + 1 ELSE 0

\* dict d with d[k] = v for every k in keys (later assignments win)
Assign(d, keys, v) ==
    [k \in (DOMAIN d) \cup keys |-> IF k \in keys THEN v ELSE d[k]]

\* the body of the loop of find_merged_ranges for one range
MarkRange(d, r) ==
    Assign(Assign(d, {TopLeft(r)},
                  RootEntry(Span(r.min_col, r.max_col),
                            Span(r.min_row, r.max_row))),
           CellsOf(r) \ {TopLeft(r)},
           HiddenEntry)

RECURSIVE FindMergedFrom(_, _)
FindMergedFrom(d, ranges) ==
    IF ranges = <<>> THEN d
    ELSE FindMergedFrom(MarkRange(d, Head(ranges)), Tail(ranges))

\* find_merged_ranges(worksheet)
find_merged_ranges(ranges) == FindMergedFrom(<<>>, ranges)

FindMergedRanges ==
    /\ g_pc = "idle"
    /\ g_map' = find_merged_ranges(g_ranges)
    /\ g_pc' = "done"
    /\ UNCHANGED g_ranges
    /\ UNCHANGED <<chunkVars, sheetVars, batchVars, nameVars, renderVars>>
    /\ UNCHANGED extVars

InitGeometry ==
    /\ g_ranges \in SeqsUpTo(RangesIn(GeoRows, GeoCols), MaxRanges)
    /\ g_map = <<>>
    /\ g_pc = "idle"
    /\ ChunkIdle /\ SheetIdle /\ BatchIdle /\ NameIdle
    /\ RenderIdle
    /\ ExtIdle

NextGeometry == FindMergedRanges

SpecGeometry == InitGeometry /\ [][NextGeometry]_vars

\* C2: when the merged ranges do not overlap, the map holds the top-left
\* corner of every range as a merged root carrying the range's colspan and
\* rowspan (none when 1), every other coordinate of a range as hidden, and no
\* other coordinate; no entry is both root and hidden.
C2_EveryCoordinateInOneClass ==
    (g_pc = "done" /\ NonOverlapping(g_ranges)) =>
        LET governing == {TopLeft(g_ranges[i]) : i \in 1..Len(g_ranges)}
            hidden    == UNION {CellsOf(g_ranges[i]) \ {TopLeft(g_ranges[i])} :
                                  i \in 1..Len(g_ranges)}
        IN  /\ governing \cap hidden = {}
            /\ DOMAIN g_map = governing \cup hidden
            /\ \A c \in hidden :
                  g_map[c].hidden /\ ~g_map[c].is_merged_root
            /\ \A i \in 1..Len(g_ranges) :
                  LET r == g_ranges[i]
                      e == g_map[TopLeft(r)]
                      w == r.max_col - r.min_col + 1
                      h == r.max_row - r.min_row + 1
                  IN  /\ e.is_merged_root /\ ~e.hidden
                      /\ e.colspan = (IF w > 1 THEN w ELSE 0)
                      /\ e.rowspan = (IF h > 1 THEN h ELSE 0)

\* two disjoint ranges, one of them wider than a cell, and an ordinary cell
C2_Witness ==
    /\ g_pc = "done"
    /\ Len(g_ranges) = 2
    /\ NonOverlapping(g_ranges)
    /\ \E c \in DOMAIN g_map : g_map[c].hidden
    /\ \E c \in DOMAIN g_map : g_map[c].is_merged_root /\ g_map[c].colspan = 2
    /\ \E c \in (1..GeoRows) \X (1..GeoCols) : c \notin DOMAIN g_map

----------------------------------------------------------------------------
(* Text: str values are sequences of one-character strings.                *)

Digits  == <<"0", "1", "2", "3", "4", "5", "6", "7", "8", "9">>
Letters == <<"A", "B", "C", "D", "E", "F", "G", "H", "I", "J", "K", "L", "M",
             "N", "O", "P", "Q", "R", "S", "T", "U", "V", "W", "X", "Y", "Z">>
Lower   == <<"a", "b", "c", "d", "e", "f", "g", "h", "i", "j", "k", "l", "m",
             "n", "o", "p", "q", "r", "s", "t", "u", "v", "w", "x", "y", "z">>

IndexIn(q, ch) == CHOOSE i \in 1..Len(q) : q[i] = ch
IsIn(q, ch)    == \E i \in 1..Len(q) : q[i] = ch
IsDigit(ch)    == IsIn(Digits, ch)
DigitVal(ch)   == IndexIn(Digits, ch) - 1
\* str.upper() of one character
Upper(ch)      == IF IsIn(Lower, ch) THEN Letters[IndexIn(Lower, ch)] ELSE ch

\* str.isdigit(): not empty and only digits
IsDigitStr(cs) == cs # <<>> /\ \A i \in 1..Len(cs) : IsDigit(cs[i])

\* int() of a string of digits
RECURSIVE IntOfDigits(_)
IntOfDigits(cs) ==
    IF cs = <<>> THEN 0
    ELSE 10 * IntOfDigits(SubSeq(cs, 1, Len(cs) - 1)) + DigitVal(cs[Len(cs)])

\* str() of a non-negative int
RECURSIVE StrOfNat(_)
StrOfNat(k) ==
    IF k < 10 THEN <<Digits[k + 1]>>
    ELSE StrOfNat(k \div 10) \o <<Digits[(k % 10) + 1]>>

\* openpyxl.utils.get_column_letter
RECURSIVE get_column_letter(_)
get_column_letter(col) ==
    IF col <= 26 THEN <<Letters[col]>>
    ELSE get_column_letter((col - 1) \div 26)
           \o <<Letters[((col - 1) % 26) + 1]>>

\* the column number of a string of capital letters
RECURSIVE ColumnIndex(_)
ColumnIndex(cs) ==
    IF cs = <<>> THEN 0
    ELSE 26 * ColumnIndex(SubSeq(cs, 1, Len(cs) - 1))
           + IndexIn(Letters, cs[Len(cs)])

\* the index of the first digit of cs, Len(cs) + 1 when it has none
FirstDigit(cs) ==
    IF \E i \in 1..Len(cs) : IsDigit(cs[i])
    THEN CHOOSE i \in 1..Len(cs) :
             IsDigit(cs[i]) /\ \A j \in 1..(i - 1) : ~IsDigit(cs[j])
    ELSE Len(cs) + 1

ColPart(cs) == SubSeq(cs, 1, FirstDigit(cs) - 1)
RowPart(cs) == SubSeq(cs, FirstDigit(cs), Len(cs))

\* openpyxl.utils.coordinate_to_tuple succeeds: one to three capital letters,
\* then digits only
CoordinateParses(cs) ==
    /\ Len(ColPart(cs)) \in 1..3
    /\ \A i \in 1..Len(ColPart(cs)) : IsIn(Letters, ColPart(cs)[i])
    /\ IsDigitStr(RowPart(cs))

\* openpyxl.utils.coordinate_to_tuple: (row, col)
coordinate_to_tuple(cs) ==
    <<IntOfDigits(RowPart(cs)), ColumnIndex(ColPart(cs))>>

\* the A1 notation of a coordinate: get_column_letter(col) + str(row)
RefOf(coord) == get_column_letter(coord[2]) \o StrOfNat(coord[1])

----------------------------------------------------------------------------
(* update_excel_sheet.                                                     *)

\* the loop body leaving the top-left corner out of the dict
MapRangeMut(d, r) == Assign(d, CellsOf(r) \ {TopLeft(r)}, TopLeft(r))

\* the body of the loop of get_merged_cell_mapping for one range
MapRange(d, r) == Assign(d, CellsOf(r), TopLeft(r))

RECURSIVE MergedMappingFrom(_, _)
MergedMappingFrom(d, ranges) ==
    IF ranges = <<>> THEN d
    ELSE MergedMappingFrom(MapRange(d, Head(ranges)), Tail(ranges))

\* get_merged_cell_mapping(worksheet)
get_merged_cell_mapping(ranges) == MergedMappingFrom(<<>>, ranges)

ResolveMut(cs, merged_mapping) == cs
\* resolve_merged_cell_reference(cell_ref, merged_mapping)
resolve_merged_cell_reference(cs, merged_mapping) ==
    IF ~CoordinateParses(cs)
    THEN cs      \* except Exception: return cell_ref
    ELSE IF coordinate_to_tuple(cs) \in DOMAIN merged_mapping
    THEN RefOf(merged_mapping[coordinate_to_tuple(cs)])
    ELSE cs

\* str.replace(',', '')
StripCommas(cs) == SelectSeq(cs, LAMBDA ch : ch # ",")

\* float() accepts the text: an optional sign, digits with at most one point
\* among them, at least one digit (no exponent, inf or nan over the characters
\* the model uses)
Unsigned(cs) ==
    IF cs # <<>> /\ cs[1] \in {"-", "+"} THEN Tail(cs) ELSE cs
FloatParses(cs) ==
    LET u == Unsigned(cs)
    IN  /\ \E i \in 1..Len(u) : IsDigit(u[i])
        /\ \A i \in 1..Len(u) : IsDigit(u[i]) \/ u[i] = "."
        /\ Cardinality({i \in 1..Len(u) : u[i] = "."}) <= 1

RECURSIVE Normalize(_, _)
Normalize(k, dp) ==
    IF dp > 0 /\ k % 10 = 0 THEN Normalize(k \div 10, dp - 1)
    ELSE PyFloat(k, dp)

\* float() of an accepted text
FloatOf(cs) ==
    LET u      == Unsigned(cs)
        digits == SelectSeq(u, LAMBDA ch : ch # ".")
        point  == IF \E i \in 1..Len(u) : u[i] = "."
                  THEN CHOOSE i \in 1..Len(u) : u[i] = "."
                  ELSE Len(u) + 1
        dp     == Max(Len(u) - point, 0)
        sign   == IF cs[1] = "-" THEN -1 ELSE 1
    IN  Normalize(sign * IntOfDigits(digits), dp)

\* lines 116-126: the value as it is written
Coerce(value) ==
    IF value.t # "str" THEN value
    ELSE IF IsDigitStr(StripCommas(value.s))
    THEN PyInt(IntOfDigits(StripCommas(value.s)))
    ELSE IF FloatParses(StripCommas(value.s))
    THEN FloatOf(StripCommas(value.s))
    ELSE value

\* bool(x) is False
Falsy(x) ==
    \/ x.t = "none"
    \/ x.t = "str" /\ x.s = <<>>
    \/ x.t \in {"int", "float"} /\ x.n = 0

\* line 104: incomplete cell data
Incomplete(p) ==
    Falsy(p.cell_reference) \/ p.value.t = "none" \/ p.value = PyStr(<<>>)

\* line 109: the reference is no string of two characters or more
InvalidReference(p) ==
    p.cell_reference.t # "str" \/ Len(p.cell_reference.s) < 2

\* a MergedCell: a coordinate of a merged range other than its top-left one
IsMergedCell(sheet, coord) ==
    \E i \in 1..Len(sheet.merged) :
        coord \in CellsOf(sheet.merged[i]) /\ coord # TopLeft(sheet.merged[i])

UpperStr(cs) == [i \in 1..Len(cs) |-> Upper(cs[i])]

CanWriteMut(sheet, cs) ==
    /\ CoordinateParses(UpperStr(cs))
    /\ coordinate_to_tuple(UpperStr(cs))[1] \in 1..1048576
    /\ coordinate_to_tuple(UpperStr(cs))[2] \in 1..16384
\* worksheet[ref] = value succeeds: ref names one cell (letters in either
\* case), inside the limits of a sheet, and the cell is no MergedCell, whose
\* value is read-only
CanWrite(sheet, cs) ==
    /\ CoordinateParses(UpperStr(cs))
    /\ coordinate_to_tuple(UpperStr(cs))[1] \in 1..1048576
    /\ coordinate_to_tuple(UpperStr(cs))[2] \in 1..16384
    /\ ~IsMergedCell(sheet, coordinate_to_tuple(UpperStr(cs)))

WriteCellMut(sheet, cs, value) ==
    LET coord == coordinate_to_tuple(UpperStr(cs))
        old   == IF coord \in DOMAIN sheet.cells THEN sheet.cells[coord]
                 ELSE PyNone
        new   == IF old.t = "int" /\ value.t = "int"
                 THEN PyInt(old.n + value.n) ELSE value
    IN  [sheet EXCEPT !.cells =
            [c \in (DOMAIN sheet.cells) \cup {coord} |->
                IF c = coord THEN new ELSE sheet.cells[c]]]
\* a write that keeps what an earlier patch wrote
WriteKeepMut(sheet, cs, value) ==
    LET coord == coordinate_to_tuple(UpperStr(cs))
        fresh == coord \notin DOMAIN sheet.cells
                    \/ sheet.cells[coord] \in {PyNone, PyStr(<<"o", "l", "d">>)}
    IN  [sheet EXCEPT !.cells =
            [c \in (DOMAIN sheet.cells) \cup {coord} |->
                IF c = coord /\ fresh THEN value
                ELSE IF c = coord THEN sheet.cells[coord]
                ELSE sheet.cells[c]]]

\* worksheet[ref] = value
WriteCell(sheet, cs, value) ==
    LET coord == coordinate_to_tuple(UpperStr(cs))
    IN  [sheet EXCEPT !.cells =
            [c \in (DOMAIN sheet.cells) \cup {coord} |->
                IF c = coord THEN value ELSE sheet.cells[c]]]

\* the list item is a dict: cell_info.get exists
IsDict(p) == "cell_reference" \in DOMAIN p

\* lines 98-140: one patch; st = [sheet, updates_made, log, aborted]. An item
\* that is no dict raises at line 100 and again in the handler of line 139,
\* which leaves the loop for the except of line 144.
ApplyPatch(st, p, i, merged_mapping) ==
    IF ~IsDict(p)
    THEN [st EXCEPT !.aborted = TRUE]
    ELSE IF Incomplete(p) \/ InvalidReference(p)
    THEN st
    ELSE LET resolved == resolve_merged_cell_reference(p.cell_reference.s,
                                                       merged_mapping)
             value    == Coerce(p.value)
         IN  IF ~CanWrite(st.sheet, resolved)
             THEN st      \* except Exception: continue
             ELSE [sheet        |-> WriteCell(st.sheet, resolved, value),
                   updates_made |-> st.updates_made + 1,
                   log          |-> Append(st.log,
                                      [index |-> i,
                                       cell_ref |-> p.cell_reference.s,
                                       resolved |-> resolved,
                                       value |-> value]),
                   aborted      |-> FALSE]

RECURSIVE ApplyFrom(_, _, _, _)
ApplyFrom(st, patches, i, merged_mapping) ==
    IF i > Len(patches) \/ st.aborted THEN st
    ELSE ApplyFrom(ApplyPatch(st, patches[i], i, merged_mapping),
                   patches, i + 1, merged_mapping)

\* lines 142-146: return updates_made, or 0 from the outer except
Returned(st) == IF st.aborted THEN 0 ELSE st.updates_made

\* update_excel_sheet(workbook, sheet_name, cell_data) on a sheet that exists
update_excel_sheet(sheet, patches) ==
    LET st == ApplyFrom([sheet |-> sheet, updates_made |-> 0, log |-> <<>>,
                         aborted |-> FALSE],
                        patches, 1, get_merged_cell_mapping(sheet.merged))
    IN  [sheet |-> st.sheet, updates_made |-> Returned(st), log |-> st.log]

\* one run of update_excel_sheet on the live worksheet; the same patch list
\* may be applied again
UpdateExcelSheet ==
    /\ applications < 2
    /\ ws # <<>>
    /\ \E r \in {update_excel_sheet(ws, cell_data)} :
           /\ ws' = r.sheet
           /\ updates_made' = r.updates_made
           /\ write_log' = r.log
           /\ after_first' = IF applications = 0 THEN r.sheet.cells
                             ELSE after_first
    /\ applications' = applications + 1
    /\ UNCHANGED cell_data
    /\ UNCHANGED <<chunkVars, geomVars, batchVars, nameVars, renderVars>>
    /\ UNCHANGED extVars

\* the patches the lists are made of: a reference inside the sheet, one in
\* lower case, one outside the sheet; text that is a number, and is not
SheetPatchPool ==
    { [cell_reference |-> PyStr(<<"B", "1">>),
       value |-> PyStr(<<"1", ",", "2", "3", "4">>)],
      [cell_reference |-> PyStr(<<"A", "1">>),
       value |-> PyStr(<<"1", "2", ".", "5">>)],
      [cell_reference |-> PyStr(<<"B", "2">>),
       value |-> PyStr(<<"N", "/", "A">>)],
      [cell_reference |-> PyStr(<<"A", "2">>), value |-> PyInt(7)],
      [cell_reference |-> PyStr(<<"b", "1">>), value |-> PyStr(<<"x">>)],
      [cell_reference |-> PyStr(<<"D", "4">>), value |-> PyStr(<<"-", "5">>)],
      [cell_reference |-> PyStr(<<"B", "1">>), value |-> PyStr(<<>>)] }

\* a loaded worksheet: the top-left cell of a merged range and every cell
\* outside the ranges hold a value, the other cells of a range hold none
LoadedSheet(rows, cols, ranges) ==
    LET sheet == [merged |-> ranges, cells |-> <<>>]
    IN  [merged |-> ranges,
         cells  |-> [c \in (1..rows) \X (1..cols) |->
                        IF IsMergedCell(sheet, c) THEN PyNone
                        ELSE PyStr(<<"o", "l", "d">>)]]

\* the merged ranges of a worksheet never overlap (data model, MergedRange)
SheetRanges(rows, cols, n) ==
    {q \in SeqsUpTo(RangesIn(rows, cols), n) : NonOverlapping(q)}

\* the worksheets patched: two rows by two columns, with every arrangement
\* of at most two merged ranges
SheetPool ==
    {LoadedSheet(2, 2, q) : q \in SheetRanges(2, 2, 2)}

InitSheet ==
    /\ ws \in SheetPool
    /\ cell_data \in SeqsUpTo(SheetPatchPool, MaxPatches)
    /\ applications = 0
    /\ updates_made = 0
    /\ write_log = <<>>
    /\ after_first = <<>>
    /\ ChunkIdle /\ GeomIdle /\ BatchIdle /\ NameIdle
    /\ RenderIdle
    /\ ExtIdle

NextSheet == UpdateExcelSheet

SpecSheet == InitSheet /\ [][NextSheet]_vars

\* The patch lists of a JSON artifact, whose items nothing has validated:
\* the patches above; a missing reference, one that is no string, one of a
\* single character, one of the wrong shape, row 0; a missing value, the
\* number 0; an item that is no object.
PatchItemPool ==
    SheetPatchPool \cup
    { [cell_reference |-> PyNone, value |-> PyStr(<<"x">>)],
      [cell_reference |-> PyInt(5), value |-> PyStr(<<"x">>)],
      [cell_reference |-> PyStr(<<"A">>), value |-> PyStr(<<"x">>)],
      [cell_reference |-> PyStr(<<"1", "A">>), value |-> PyStr(<<"x">>)],
      [cell_reference |-> PyStr(<<"A", "0">>), value |-> PyStr(<<"x">>)],
      [cell_reference |-> PyStr(<<"A", "1">>), value |-> PyNone],
      [cell_reference |-> PyStr(<<"A", "2">>), value |-> PyInt(0)],
      PyStr(<<"o", "o", "p", "s">>) }

\* the worksheets they are applied to: two rows by two columns with no
\* merged range, with A1:B1 merged, with A1:B2 merged
PatchSheetPool ==
    { LoadedSheet(2, 2, <<>>),
      LoadedSheet(2, 2, <<[min_row |-> 1, min_col |-> 1,
                           max_row |-> 1, max_col |-> 2]>>),
      LoadedSheet(2, 2, <<[min_row |-> 1, min_col |-> 1,
                           max_row |-> 2, max_col |-> 2]>>) }

InitPatches ==
    /\ ws \in PatchSheetPool
    /\ cell_data \in SeqsUpTo(PatchItemPool, MaxPatches)
    /\ applications = 0
    /\ updates_made = 0
    /\ write_log = <<>>
    /\ after_first = <<>>
    /\ ChunkIdle /\ GeomIdle /\ BatchIdle /\ NameIdle /\ RenderIdle
    /\ ExtIdle

SpecPatches == InitPatches /\ [][NextSheet]_vars

----------------------------------------------------------------------------
(* Claims about update_excel_sheet.                                        *)

\* the coordinates a canonical reference of the patch lists can name
Coordinates == (1..4) \X (1..4)

\* the patch names coordinate c in A1 notation and carries a value
Names(p, c) ==
    /\ p.cell_reference = PyStr(RefOf(c))
    /\ p.value # PyNone
    /\ p.value # PyStr(<<>>)

Subordinate(c) ==
    \E i \in 1..Len(ws.merged) :
        c \in CellsOf(ws.merged[i]) /\ c # TopLeft(ws.merged[i])

\* the top-left coordinate of the merged range c is a subordinate cell of
GoverningOf(c) ==
    TopLeft(ws.merged[CHOOSE i \in 1..Len(ws.merged) :
                          c \in CellsOf(ws.merged[i])])

WritesOf(i) == {j \in 1..Len(write_log) : write_log[j].index = i}

\* the coordinate the j-th write went to
WrittenAt(j) == coordinate_to_tuple(UpperStr(write_log[j].resolved))

\* C3: a patch whose reference is a subordinate coordinate of a merged range
\* is written once, at the range's top-left coordinate; a patch whose
\* reference is a top-left coordinate or lies in no merged range is written
\* once, at the referenced coordinate; the cell written then holds the value
\* of the last patch written there.
C3_SubordinateRedirectedToTopLeft ==
    applications >= 1 =>
        \A i \in 1..Len(cell_data) : \A c \in Coordinates :
            Names(cell_data[i], c) =>
                LET target == IF Subordinate(c) THEN GoverningOf(c) ELSE c
                IN  /\ Cardinality(WritesOf(i)) = 1
                    /\ \A j \in WritesOf(i) :
                          /\ write_log[j].resolved = RefOf(target)
                          /\ write_log[j].cell_ref = RefOf(c)
                    /\ target \in DOMAIN ws.cells
                    /\ \E j \in 1..Len(write_log) :
                          /\ WrittenAt(j) = target
                          /\ \A k \in (j + 1)..Len(write_log) :
                                WrittenAt(k) # target
                          /\ ws.cells[target] = write_log[j].value
                    /\ Subordinate(c) => ws.cells[c] = PyNone

\* B1 of the merged range A1:B1 is patched with "1,234": A1 holds 1234
C3_Witness ==
    /\ applications = 1
    /\ Len(ws.merged) = 1
    /\ CellsOf(ws.merged[1]) = {<<1, 1>>, <<1, 2>>}
    /\ \E j \in 1..Len(write_log) :
          /\ write_log[j].cell_ref = <<"B", "1">>
          /\ write_log[j].resolved = <<"A", "1">>
    /\ ws.cells[<<1, 1>>] = PyInt(1234)
    /\ ws.cells[<<1, 2>>] = PyNone

\* C4: after the same patch list has been applied a second time every cell
\* holds the value it held after the first application.
C4_SecondApplicationChangesNothing ==
    applications = 2 => ws.cells = after_first

\* the list wrote a number through a merged range and was applied twice
C4_Witness ==
    /\ applications = 2
    /\ updates_made = 2
    /\ \E j \in 1..Len(write_log) :
          write_log[j].resolved # write_log[j].cell_ref
    /\ \E c \in DOMAIN ws.cells : ws.cells[c].t = "int"
    /\ ws.cells = after_first

\* the j-th write came from a patch whose value is v
WroteValue(j) == cell_data[write_log[j].index].value

\* int() accepts the text: an optional sign and digits (over the characters
\* the model uses)
IntParses(cs) == IsDigitStr(Unsigned(cs))
IntOf(cs) == (IF cs[1] = "-" THEN -1 ELSE 1) * IntOfDigits(Unsigned(cs))

\* C11: a textual value is written, its commas stripped, as an integer if
\* the remainder parses as an integer, otherwise as a float if it parses as
\* a float, otherwise as the original text; any other value is written
\* unchanged.
C11_CoercedByParse ==
    \A j \in 1..Len(write_log) :
        LET v == WroteValue(j)
            s == StripCommas(v.s)
        IN  write_log[j].value =
                IF v.t # "str" THEN v
                ELSE IF IntParses(s) THEN PyInt(IntOf(s))
                ELSE IF FloatParses(s) THEN FloatOf(s)
                ELSE v

\* the three documented examples, which the code does coerce as stated
C11_Examples ==
    \A j \in 1..Len(write_log) :
        /\ WroteValue(j) = PyStr(<<"1", ",", "2", "3", "4">>)
              => write_log[j].value = PyInt(1234)
        /\ WroteValue(j) = PyStr(<<"1", "2", ".", "5">>)
              => write_log[j].value = PyFloat(125, 1)
        /\ WroteValue(j) = PyStr(<<"N", "/", "A">>)
              => write_log[j].value = PyStr(<<"N", "/", "A">>)
        /\ WroteValue(j).t # "str" => write_log[j].value = WroteValue(j)

\* the text has the shape of a cell reference: column letters, in either
\* case, then a row number
LettersThenNumber(cs) ==
    /\ FirstDigit(cs) > 1
    /\ \A i \in 1..(FirstDigit(cs) - 1) : IsIn(Letters, Upper(cs[i]))
    /\ IsDigitStr(RowPart(cs))

\* the patch has no cell_reference, a missing or empty value, or a
\* cell_reference that is no string, is shorter than two characters or has
\* not the shape of a reference
Malformed(p) ==
    \/ ~IsDict(p)
    \/ /\ IsDict(p)
       /\ \/ p.cell_reference \in {PyNone, PyStr(<<>>)}
          \/ p.value \in {PyNone, PyStr(<<>>)}
          \/ p.cell_reference.t # "str"
          \/ Len(p.cell_reference.s) < 2
          \/ ~LettersThenNumber(p.cell_reference.s)

\* C12: a patch with no cell_reference, with a missing or empty value or
\* with a malformed cell_reference is skipped, nothing is written for it and
\* it is not counted; every other patch is written and counted.
C12_SkippedIffMalformed ==
    applications >= 1 =>
        /\ \A i \in 1..Len(cell_data) :
              IF Malformed(cell_data[i])
              THEN WritesOf(i) = {}
              ELSE Cardinality(WritesOf(i)) = 1
        /\ updates_made =
              Cardinality({i \in 1..Len(cell_data) : ~Malformed(cell_data[i])})

\* the first half alone, which the code keeps: a malformed patch is never
\* written
C12_MalformedNeverWritten ==
    \A i \in 1..Len(cell_data) :
        Malformed(cell_data[i]) => WritesOf(i) = {}

\* the patch is valid on the worksheet: applied alone, it is written (the
\* merged ranges, which decide that, are the same before and after a run)
ValidAlone(p) == update_excel_sheet(ws, <<p>>).updates_made = 1

\* C13: a patch that is skipped or that raises affects only itself: every
\* valid patch of the list, before and after it, is applied, and the count
\* returned is the number of patches written.
C13_FailuresAreContained ==
    applications >= 1 =>
        /\ \A i \in 1..Len(cell_data) :
              ValidAlone(cell_data[i]) => Cardinality(WritesOf(i)) = 1
        /\ updates_made = Len(write_log)

\* the same for the lists whose items are all objects, where it holds
C13_ContainedAmongObjects ==
    (applications >= 1 /\ \A i \in 1..Len(cell_data) : IsDict(cell_data[i]))
        => /\ \A i \in 1..Len(cell_data) :
                 ValidAlone(cell_data[i]) => Cardinality(WritesOf(i)) = 1
           /\ updates_made = Len(write_log)

\* the coordinates the run just made wrote to
Targets == {coordinate_to_tuple(UpperStr(write_log'[j].resolved)) :
                j \in 1..Len(write_log')}

C14_Step ==
    /\ ws'.merged = ws.merged
    /\ \A c \in Targets : ~IsMergedCell(ws, c)
    /\ DOMAIN ws.cells \subseteq DOMAIN ws'.cells
    /\ \A c \in DOMAIN ws'.cells :
          c \notin Targets => c \in DOMAIN ws.cells
                               /\ ws'.cells[c] = ws.cells[c]

\* C14: a patch application leaves the merged ranges as they were, writes to
\* no coordinate of a merged range other than its top-left one, and leaves
\* every cell that is not the resolved target of an applied patch with the
\* value it had.
C14_OnlyGoverningCellsWritten == [][C14_Step]_vars

\* a patch for B1 of the merged range A1:B1 was written at A1, B1 is still
\* empty and A2 still holds its old value
C14_Witness ==
    /\ applications = 1
    /\ Len(ws.merged) = 1
    /\ CellsOf(ws.merged[1]) = {<<1, 1>>, <<1, 2>>}
    /\ \E j \in 1..Len(write_log) :
          /\ write_log[j].cell_ref = <<"B", "1">>
          /\ WrittenAt(j) = <<1, 1>>
    /\ ws.cells[<<1, 2>>] = PyNone
    /\ ws.cells[<<2, 1>>] = PyStr(<<"o", "l", "d">>)

\* the bounding rectangle of the worksheets as loaded: 1..max_row by
\* 1..max_column
LoadedCells == (1..2) \X (1..2)

\* the patch names a cell outside that rectangle
OutOfBounds(p) ==
    /\ IsDict(p)
    /\ p.cell_reference.t = "str"
    /\ CoordinateParses(UpperStr(p.cell_reference.s))
    /\ coordinate_to_tuple(UpperStr(p.cell_reference.s)) \notin LoadedCells

\* C15: a patch whose cell_reference lies outside the worksheet's bounding
\* rectangle is skipped and the worksheet is not extended.
C15_OutOfBoundsSkipped ==
    applications >= 1 =>
        /\ \A i \in 1..Len(cell_data) :
              OutOfBounds(cell_data[i]) => WritesOf(i) = {}
        /\ DOMAIN ws.cells = LoadedCells

----------------------------------------------------------------------------
(* update_excel_from_json: one workbook file and its JSON artifacts.       *)

\* the patches of the JSON artifacts
FilePatchPool ==
    { [cell_reference |-> PyStr(<<"B", "1">>),
       value |-> PyStr(<<"1", ",", "2", "3", "4">>)],
      [cell_reference |-> PyStr(<<"A", "2">>), value |-> PyInt(7)],
      [cell_reference |-> PyStr(<<"A", "1">>), value |-> PyStr(<<>>)] }

\* The artifact looked up for one sheet:
\*   "absent"   no file of the expected name
\*   "invalid"  load_json_data returns None (not JSON, or the JSON null)
\*   "scalar"   JSON that is neither an object nor an array
\*   "object"   a single patch object
\*   "list"     an array of patch objects
JsonFiles(n) ==
    [kind : {"absent", "invalid", "scalar"}, data : {<<>>}]
    \cup [kind : {"object"}, data : [1..1 -> FilePatchPool]]
    \cup [kind : {"list"}, data : SeqsUpTo(FilePatchPool, n)]

\* line 256: workbook_updated = True
WorkbookUpdated(was, updates) == TRUE

\* lines 228-260: one sheet; st = [sheets, workbook_updated, total_updates]
ProcessSheet(st, k, file) ==
    IF file.kind \in {"absent", "invalid", "scalar"}
    THEN st       \* no matching file, or continue
    ELSE LET r == update_excel_sheet(st.sheets[k], file.data)
         IN  [sheets           |-> [st.sheets EXCEPT ![k] = r.sheet],
              workbook_updated |-> WorkbookUpdated(st.workbook_updated,
                                                   r.updates_made),
              total_updates    |-> st.total_updates + r.updates_made]

RECURSIVE ProcessSheetsFrom(_, _, _)
ProcessSheetsFrom(st, k, files) ==
    IF k > Len(files) THEN st
    ELSE ProcessSheetsFrom(ProcessSheet(st, k, files[k]), k + 1, files)

\* lines 217-269 for one workbook file
UpdateExcelFromJson ==
    /\ b_pc = "idle"
    /\ \E r \in {ProcessSheetsFrom([sheets |-> workbook,
                                   workbook_updated |-> FALSE,
                                   total_updates |-> 0], 1, json_files)} :
          /\ workbook' = r.sheets
          /\ workbook_updated' = r.workbook_updated
          /\ total_updates' = r.total_updates
          /\ saved' = r.workbook_updated   \* if workbook_updated: save
    /\ b_pc' = "done"
    /\ UNCHANGED json_files
    /\ UNCHANGED <<chunkVars, geomVars, sheetVars, nameVars, renderVars>>
    /\ UNCHANGED extVars

\* a sheet of the workbook: two rows by two columns, A1:B1 merged
BatchSheet ==
    LoadedSheet(2, 2, <<[min_row |-> 1, min_col |-> 1,
                         max_row |-> 1, max_col |-> 2]>>)

InitBatch ==
    /\ \E n \in 1..MaxSheets :
          /\ workbook = [k \in 1..n |-> BatchSheet]
          /\ json_files \in [1..n -> JsonFiles(MaxFilePatches)]
    /\ b_pc = "idle"
    /\ workbook_updated = FALSE
    /\ total_updates = 0
    /\ saved = FALSE
    /\ ChunkIdle /\ GeomIdle /\ SheetIdle /\ NameIdle
    /\ RenderIdle
    /\ ExtIdle

NextBatch == UpdateExcelFromJson

SpecBatch == InitBatch /\ [][NextBatch]_vars

\* C10: the workbook is saved only if some sheet received at least one
\* successful cell update; with zero successful updates it is not saved.
C10_SavedOnlyAfterAnUpdate ==
    b_pc = "done" => (saved => total_updates > 0)

----------------------------------------------------------------------------
(* clean_sheet_name_for_json.                                              *)

\* the characters str.strip() removes, among those of the model
Whitespace == {" ", "\t"}

RECURSIVE LStrip(_, _)
LStrip(cs, S) ==
    IF cs # <<>> /\ Head(cs) \in S THEN LStrip(Tail(cs), S) ELSE cs

RECURSIVE RStrip(_, _)
RStrip(cs, S) ==
    IF cs # <<>> /\ cs[Len(cs)] \in S
    THEN RStrip(SubSeq(cs, 1, Len(cs) - 1), S) ELSE cs

\* str.strip(chars)
Strip(cs, S) == RStrip(LStrip(cs, S), S)

\* str.replace(old, new) for a single character old
RECURSIVE Replace(_, _, _)
Replace(cs, old, new) ==
    IF cs = <<>> THEN <<>>
    ELSE (IF Head(cs) = old THEN new ELSE <<Head(cs)>>)
           \o Replace(Tail(cs), old, new)

\* '__' in cleaned
HasDouble(cs) ==
    \E i \in 1..(Len(cs) - 1) : cs[i] = "_" /\ cs[i + 1] = "_"

\* cleaned.replace('__', '_'): the pairs found from left to right
RECURSIVE ReplaceDouble(_)
ReplaceDouble(cs) ==
    IF Len(cs) < 2 THEN cs
    ELSE IF cs[1] = "_" /\ cs[2] = "_"
    THEN <<"_">> \o ReplaceDouble(SubSeq(cs, 3, Len(cs)))
    ELSE <<cs[1]>> \o ReplaceDouble(Tail(cs))

CollapseMut(cs) == cs
\* lines 171-173: while '__' in cleaned
RECURSIVE Collapse(_)
Collapse(cs) == IF HasDouble(cs) THEN Collapse(ReplaceDouble(cs)) ELSE cs

\* clean_sheet_name_for_json(sheet_name), lines 160-179
clean_sheet_name_for_json(name) ==
    LET stripped == Strip(name, Whitespace)
        spaces   == Replace(stripped, " ", <<"_">>)
        dots     == Replace(spaces, ".", <<"_">>)
        opening  == Replace(dots, "(", <<"_">>)
        closing  == Replace(opening, ")", <<>>)
        commas   == Replace(closing, ",", <<"_">>)
        hyphens  == Replace(commas, "-", <<"_">>)
    IN  Strip(Collapse(hyphens), {"_"})

CleanSheetName ==
    /\ n_pc = "idle"
    /\ cleaned' = clean_sheet_name_for_json(sheet_name)
    /\ n_pc' = "done"
    /\ UNCHANGED sheet_name
    /\ UNCHANGED <<chunkVars, geomVars, sheetVars, batchVars, renderVars>>
    /\ UNCHANGED extVars

\* the characters of the sheet names: letters, the characters the function
\* names, the underscore, a blank and a tab
NameChars == {"a", "b", " ", "\t", ".", "(", ")", ",", "-", "_"}

InitName ==
    /\ \E k \in 1..MaxNameLen : sheet_name \in [1..k -> NameChars]
    /\ cleaned = <<>>
    /\ n_pc = "idle"
    /\ ChunkIdle /\ GeomIdle /\ SheetIdle /\ BatchIdle /\ RenderIdle
    /\ ExtIdle

NextName == CleanSheetName

SpecName == InitName /\ [][NextName]_vars

----------------------------------------------------------------------------
(* Claims about clean_sheet_name_for_json.                                 *)

\* the positions of cs, in order, whose character is not in S
PositionsOutside(cs, S) ==
    LET idx == {i \in 1..Len(cs) : cs[i] \notin S}
    IN  [k \in 1..Cardinality(idx) |->
            CHOOSE i \in idx : Cardinality({j \in idx : j < i}) = k - 1]

\* out is name with every character of Seps turned into an underscore and
\* every character of Gone deleted, runs of underscores collapsed to one
\* and the underscores at both ends removed
Normalised(out, name, Seps, Gone) ==
    LET kept  == PositionsOutside(name, Seps \cup Gone)
        shown == PositionsOutside(out, {"_"})
    IN  /\ ~HasDouble(out)
        /\ out # <<>> => out[1] # "_" /\ out[Len(out)] # "_"
        /\ Len(shown) = Len(kept)
        /\ \A k \in 1..Len(kept) : out[shown[k]] = name[kept[k]]
        /\ \A k \in 1..(Len(kept) - 1) :
              (shown[k + 1] - shown[k] = 2)
                 <=> \E j \in (kept[k] + 1)..(kept[k + 1] - 1) :
                        name[j] \in Seps

\* C17 as stated: every whitespace character and each of . ( ) , - becomes
\* an underscore, runs of underscores collapse to one and the underscores
\* at both ends are trimmed.
C17_EverySeparatorBecomesUnderscore ==
    n_pc = "done" =>
        Normalised(cleaned, sheet_name,
                   Whitespace \cup {".", "(", ")", ",", "-", "_"}, {})

\* C17: the whitespace around the name is removed; then every blank and
\* each of . ( , - becomes an underscore, every ) is deleted, runs of
\* underscores collapse to one and the underscores at both ends are
\* trimmed; so the result never holds two consecutive underscores and
\* never starts or ends with one.
C17_ClosingParenthesisDeleted ==
    n_pc = "done" =>
        Normalised(cleaned, Strip(sheet_name, Whitespace),
                   {" ", ".", "(", ",", "-", "_"}, {")"})

\* "a)b" was cleaned to "ab"
C17_Witness ==
    /\ n_pc = "done"
    /\ sheet_name = <<"a", ")", "b">>
    /\ cleaned = <<"a", "b">>

----------------------------------------------------------------------------
(* ExcelToHTMLConverter.convert_worksheet_to_html and the row count of     *)
(* its markup.                                                             *)

\* The text of the string literals of the code, by name.
Lit ==
    [ \* line 265: <p>Empty worksheet</p>
      EmptyWorksheet |->
        <<"<", "p", ">", "E", "m", "p", "t", "y", " ", "w", "o", "r", "k", "s",
          "h", "e", "e", "t", "<", "/", "p", ">">>,
      \* line 268: <div class="ritz grid-container" dir="ltr">
      DivOpen |->
        <<"<", "d", "i", "v", " ", "c", "l", "a", "s", "s", "=", "\"", "r",
          "i", "t", "z", " ", "g", "r", "i", "d", "-", "c", "o", "n", "t", "a",
          "i", "n", "e", "r", "\"", " ", "d", "i", "r", "=", "\"", "l", "t",
          "r", "\"", ">">>,
      \* line 269: <table class="waffle" cellspacing="0" cellpadding="0">
      TableOpen |->
        <<"<", "t", "a", "b", "l", "e", " ", "c", "l", "a", "s", "s", "=",
          "\"", "w", "a", "f", "f", "l", "e", "\"", " ", "c", "e", "l", "l",
          "s", "p", "a", "c", "i", "n", "g", "=", "\"", "0", "\"", " ", "c",
          "e", "l", "l", "p", "a", "d", "d", "i", "n", "g", "=", "\"", "0",
          "\"", ">">>,
      \* line 272: <thead><tr>
      TheadOpen |->
        <<"<", "t", "h", "e", "a", "d", ">", "<", "t", "r", ">">>,
      \* line 273: <th class="row-header freezebar-origin-ltr"></th>
      CornerTh |->
        <<"<", "t", "h", " ", "c", "l", "a", "s", "s", "=", "\"", "r", "o",
          "w", "-", "h", "e", "a", "d", "e", "r", " ", "f", "r", "e", "e", "z",
          "e", "b", "a", "r", "-", "o", "r", "i", "g", "i", "n", "-", "l", "t",
          "r", "\"", ">", "<", "/", "t", "h", ">">>,
      \* line 278: <th id="col
      ThColOpen |->
        <<"<", "t", "h", " ", "i", "d", "=", "\"", "c", "o", "l">>,
      \* line 278:  class="column-headers-background">
      ThColClass |->
        <<" ", "c", "l", "a", "s", "s", "=", "\"", "c", "o", "l", "u", "m",
          "n", "-", "h", "e", "a", "d", "e", "r", "s", "-", "b", "a", "c", "k",
          "g", "r", "o", "u", "n", "d", "\"", ">">>,
      \* lines 278, 292: </th>
      ThClose |->
        <<"<", "/", "t", "h", ">">>,
      \* line 277:  style="width:
      WidthOpen |->
        <<" ", "s", "t", "y", "l", "e", "=", "\"", "w", "i", "d", "t", "h",
          ":">>,
      \* lines 277, 286: ;"
      StyleEnd |->
        <<";", "\"">>,
      \* line 280: </tr></thead>
      TheadClose |->
        <<"<", "/", "t", "r", ">", "<", "/", "t", "h", "e", "a", "d", ">">>,
      \* line 283: <tbody>
      TbodyOpen |->
        <<"<", "t", "b", "o", "d", "y", ">">>,
      \* line 286:  style="height:
      HeightOpen |->
        <<" ", "s", "t", "y", "l", "e", "=", "\"", "h", "e", "i", "g", "h",
          "t", ":">>,
      \* line 286:  style="height:18px"
      DefaultHeight |->
        <<" ", "s", "t", "y", "l", "e", "=", "\"", "h", "e", "i", "g", "h",
          "t", ":", "1", "8", "p", "x", "\"">>,
      \* line 287: <tr
      TrOpen |->
        <<"<", "t", "r">>,
      \* lines 287, 331: >
      TagEnd |->
        <<">">>,
      \* line 290: <th id="row
      ThRowOpen |->
        <<"<", "t", "h", " ", "i", "d", "=", "\"", "r", "o", "w">>,
      \* lines 278, 290, 322-327: "
      Quote |->
        <<"\"">>,
      \* line 290:  class="row-headers-background">
      ThRowClass |->
        <<" ", "c", "l", "a", "s", "s", "=", "\"", "r", "o", "w", "-", "h",
          "e", "a", "d", "e", "r", "s", "-", "b", "a", "c", "k", "g", "r", "o",
          "u", "n", "d", "\"", ">">>,
      \* line 291: <div class="row-header-wrapper" style="line-height: 18px">
      WrapperOpen |->
        <<"<", "d", "i", "v", " ", "c", "l", "a", "s", "s", "=", "\"", "r",
          "o", "w", "-", "h", "e", "a", "d", "e", "r", "-", "w", "r", "a", "p",
          "p", "e", "r", "\"", " ", "s", "t", "y", "l", "e", "=", "\"", "l",
          "i", "n", "e", "-", "h", "e", "i", "g", "h", "t", ":", " ", "1", "8",
          "p", "x", "\"", ">">>,
      \* lines 291, 337: </div>
      WrapperClose |->
        <<"<", "/", "d", "i", "v", ">">>,
      \* line 316: class="calibri-cell"
      ClassCalibri |->
        <<"c", "l", "a", "s", "s", "=", "\"", "c", "a", "l", "i", "b", "r",
          "i", "-", "c", "e", "l", "l", "\"">>,
      \* line 318: class="calibri-cell-11"
      ClassCalibri11 |->
        <<"c", "l", "a", "s", "s", "=", "\"", "c", "a", "l", "i", "b", "r",
          "i", "-", "c", "e", "l", "l", "-", "1", "1", "\"">>,
      \* line 320: class="calibri-cell-bordered"
      ClassBordered |->
        <<"c", "l", "a", "s", "s", "=", "\"", "c", "a", "l", "i", "b", "r",
          "i", "-", "c", "e", "l", "l", "-", "b", "o", "r", "d", "e", "r", "e",
          "d", "\"">>,
      \* line 322: style="
      StyleOpen |->
        <<"s", "t", "y", "l", "e", "=", "\"">>,
      \* line 325: colspan="
      ColspanOpen |->
        <<"c", "o", "l", "s", "p", "a", "n", "=", "\"">>,
      \* line 327: rowspan="
      RowspanOpen |->
        <<"r", "o", "w", "s", "p", "a", "n", "=", "\"">>,
      \* line 331: <td
      TdOpen |->
        <<"<", "t", "d">>,
      \* line 331: </td>
      TdClose |->
        <<"<", "/", "t", "d", ">">>,
      \* line 333: </tr>
      TrClose |->
        <<"<", "/", "t", "r", ">">>,
      \* line 335: </tbody>
      TbodyClose |->
        <<"<", "/", "t", "b", "o", "d", "y", ">">>,
      \* line 336: </table>
      TableClose |->
        <<"<", "/", "t", "a", "b", "l", "e", ">">>,
      \* lines 242, 251: px
      Px |->
        <<"p", "x">>,
      \* line 104: pt
      Pt |->
        <<"p", "t">>,
      \* line 134: calibri-cell
      CalibriCell |->
        <<"c", "a", "l", "i", "b", "r", "i", "-", "c", "e", "l", "l">>,
      \* line 154: calibri-cell-11
      CalibriCell11 |->
        <<"c", "a", "l", "i", "b", "r", "i", "-", "c", "e", "l", "l", "-", "1",
          "1">>,
      \* line 178: calibri-cell-bordered
      CalibriCellBordered |->
        <<"c", "a", "l", "i", "b", "r", "i", "-", "c", "e", "l", "l", "-", "b",
          "o", "r", "d", "e", "r", "e", "d">>,
      \* lines 128, 148, 169: Calibri
      Calibri |->
        <<"C", "a", "l", "i", "b", "r", "i">>,
      \* line 53: transparent
      Transparent |->
        <<"t", "r", "a", "n", "s", "p", "a", "r", "e", "n", "t">>,
      \* lines 57-58:  #000000
      Black |->
        <<" ", "#", "0", "0", "0", "0", "0", "0">>,
      \* line 580: id="row
      IdRow |->
        <<"i", "d", "=", "\"", "r", "o", "w">> ]

\* self.border_styles, lines 37-48
border_styles ==
       "thin" :> <<"1", "p", "x", " ", "S", "O", "L", "I", "D">>
    @@ "medium" :> <<"2", "p", "x", " ", "S", "O", "L", "I", "D">>
    @@ "thick" :> <<"3", "p", "x", " ", "S", "O", "L", "I", "D">>
    @@ "double" :> <<"3", "p", "x", " ", "D", "O", "U", "B", "L", "E">>
    @@ "hair" :> <<"1", "p", "x", " ", "S", "O", "L", "I", "D">>
    @@ "dotted" :> <<"1", "p", "x", " ", "D", "O", "T", "T", "E", "D">>
    @@ "dashed" :> <<"1", "p", "x", " ", "D", "A", "S", "H", "E", "D">>
    @@ "dashDot" :> <<"1", "p", "x", " ", "D", "A", "S", "H", "E", "D">>
    @@ "dashDotDot" :> <<"1", "p", "x", " ", "D", "A", "S", "H", "E", "D">>
    @@ "slantDashDot" :> <<"1", "p", "x", " ", "D", "A", "S", "H", "E", "D">>

\* the names and the values of the CSS properties, lines 56-207
Css ==
       "border-top" :>
        <<"b", "o", "r", "d", "e", "r", "-", "t", "o", "p">>
    @@ "border-bottom" :>
        <<"b", "o", "r", "d", "e", "r", "-", "b", "o", "t", "t", "o", "m">>
    @@ "border-left" :>
        <<"b", "o", "r", "d", "e", "r", "-", "l", "e", "f", "t">>
    @@ "border-right" :>
        <<"b", "o", "r", "d", "e", "r", "-", "r", "i", "g", "h", "t">>
    @@ "text-align" :>
        <<"t", "e", "x", "t", "-", "a", "l", "i", "g", "n">>
    @@ "vertical-align" :>
        <<"v", "e", "r", "t", "i", "c", "a", "l", "-", "a", "l", "i", "g",
          "n">>
    @@ "white-space" :>
        <<"w", "h", "i", "t", "e", "-", "s", "p", "a", "c", "e">>
    @@ "overflow" :>
        <<"o", "v", "e", "r", "f", "l", "o", "w">>
    @@ "word-wrap" :>
        <<"w", "o", "r", "d", "-", "w", "r", "a", "p">>
    @@ "font-family" :>
        <<"f", "o", "n", "t", "-", "f", "a", "m", "i", "l", "y">>
    @@ "font-size" :>
        <<"f", "o", "n", "t", "-", "s", "i", "z", "e">>
    @@ "font-weight" :>
        <<"f", "o", "n", "t", "-", "w", "e", "i", "g", "h", "t">>
    @@ "color" :>
        <<"c", "o", "l", "o", "r">>
    @@ "direction" :>
        <<"d", "i", "r", "e", "c", "t", "i", "o", "n">>
    @@ "padding" :>
        <<"p", "a", "d", "d", "i", "n", "g">>
    @@ "center" :>
        <<"c", "e", "n", "t", "e", "r">>
    @@ "right" :>
        <<"r", "i", "g", "h", "t">>
    @@ "left" :>
        <<"l", "e", "f", "t">>
    @@ "middle" :>
        <<"m", "i", "d", "d", "l", "e">>
    @@ "top" :>
        <<"t", "o", "p">>
    @@ "bottom" :>
        <<"b", "o", "t", "t", "o", "m">>
    @@ "normal" :>
        <<"n", "o", "r", "m", "a", "l">>
    @@ "hidden" :>
        <<"h", "i", "d", "d", "e", "n">>
    @@ "break-word" :>
        <<"b", "r", "e", "a", "k", "-", "w", "o", "r", "d">>
    @@ "nowrap" :>
        <<"n", "o", "w", "r", "a", "p">>
    @@ "bold" :>
        <<"b", "o", "l", "d">>
    @@ "#000000" :>
        <<"#", "0", "0", "0", "0", "0", "0">>
    @@ "ltr" :>
        <<"l", "t", "r">>
    @@ "0px 3px 0px 3px" :>
        <<"0", "p", "x", " ", "3", "p", "x", " ", "0", "p", "x", " ", "3",
          "p", "x">>

\* sep.join(parts)
RECURSIVE JoinWith(_, _)
JoinWith(parts, sep) ==
    IF parts = <<>> THEN <<>>
    ELSE IF Len(parts) = 1 THEN parts[1]
    ELSE parts[1] \o sep \o JoinWith(Tail(parts), sep)

\* str() of an int
StrOfInt(k) == IF k < 0 THEN <<"-">> \o StrOfNat(-k) ELSE StrOfNat(k)

RECURSIVE Pow10(_)
Pow10(n) == IF n = 0 THEN 1 ELSE 10 * Pow10(n - 1)

\* the digits of k, with zeros in front up to n digits
RECURSIVE ZeroPadded(_, _)
ZeroPadded(k, n) ==
    IF n = 0 THEN <<>>
    ELSE ZeroPadded(k \div 10, n - 1) \o <<Digits[(k % 10) + 1]>>

\* str() of the float k / 10^dp (no exponent at the sizes of the model)
StrOfFloat(k, dp) ==
    LET a == IF k < 0 THEN -k ELSE k
    IN  (IF k < 0 THEN <<"-">> ELSE <<>>)
          \o StrOfNat(a \div Pow10(dp)) \o <<".">>
          \o (IF dp = 0 THEN <<"0">> ELSE ZeroPadded(a % Pow10(dp), dp))

\* str() of a value
Str(v) ==
    IF v.t = "int" THEN StrOfInt(v.n)
    ELSE IF v.t = "float" THEN StrOfFloat(v.n, v.d)
    ELSE IF v.t = "none" THEN <<"N", "o", "n", "e">>
    ELSE v.s

\* html.escape(s) for one character
EscapeChar(ch) ==
    IF ch = "&" THEN <<"&", "a", "m", "p", ";">>
    ELSE IF ch = "<" THEN <<"&", "l", "t", ";">>
    ELSE IF ch = ">" THEN <<"&", "g", "t", ";">>
    ELSE IF ch = "\"" THEN <<"&", "q", "u", "o", "t", ";">>
    ELSE IF ch = "'" THEN <<"&", "#", "x", "2", "7", ";">>
    ELSE <<ch>>

\* html.escape(s)
html_escape(cs) == Concat([i \in 1..Len(cs) |-> EscapeChar(cs[i])])

\* lines 303-309: display_value
DisplayValue(cell_value) ==
    IF cell_value.t = "none" THEN <<>>
    ELSE IF cell_value.t \in {"int", "float"} THEN Str(cell_value)
    ELSE html_escape(Str(cell_value))

\* bool(x) of a font attribute
Truthy(x) == ~Falsy(x)

\* A cell's style, as openpyxl hands it out: the border, its four sides, the
\* alignment and the font are always objects; a side's style and the
\* alignment's fields are a name or "none" for None; the font's name and
\* size are values.
\*   [top, bottom, left, right, horizontal, vertical, wrap_text,
\*    name, size, bold]

\* get_border_css(border_side)
get_border_css(side) ==
    IF side = "none" THEN Lit.Transparent
    ELSE (IF side \in DOMAIN border_styles THEN border_styles[side]
          ELSE border_styles["thin"])      \* the default, '1px SOLID'
           \o Lit.Black

\* get_alignment_css(alignment): the properties in the order they are set
get_alignment_css(st) ==
    << <<Css["text-align"],
         IF st.horizontal = "center" THEN Css["center"]
         ELSE IF st.horizontal = "right" THEN Css["right"]
         ELSE Css["left"]>>,
       <<Css["vertical-align"],
         IF st.vertical = "center" THEN Css["middle"]
         ELSE IF st.vertical = "top" THEN Css["top"]
         ELSE Css["bottom"]>> >>
    \o (IF st.wrap_text
        THEN << <<Css["white-space"], Css["normal"]>>,
                <<Css["overflow"], Css["hidden"]>>,
                <<Css["word-wrap"], Css["break-word"]>> >>
        ELSE << <<Css["white-space"], Css["nowrap"]>> >>)

\* get_font_css(font)
get_font_css(st) ==
    (IF Truthy(st.name) THEN << <<Css["font-family"], Str(st.name)>> >>
     ELSE <<>>)
    \o (IF Truthy(st.size)
        THEN << <<Css["font-size"], Str(st.size) \o Lit.Pt>> >> ELSE <<>>)
    \o (IF st.bold THEN << <<Css["font-weight"], Css["bold"]>> >> ELSE <<>>)

NoBorders(st) ==
    st.top = "none" /\ st.bottom = "none" /\ st.left = "none"
        /\ st.right = "none"

PlainAlignment(st) ==
    st.horizontal \in {"none", "left"} /\ st.vertical \in {"none", "bottom"}
        /\ ~st.wrap_text

\* cell.font.name in (None, 'Calibri') and cell.font.size in (None, n, n.0)
\* and not cell.font.bold
CalibriFont(st, n) ==
    /\ st.name \in {PyNone, PyStr(Lit.Calibri)}
    /\ st.size \in {PyNone, PyInt(n), PyFloat(n, 0)}
    /\ ~st.bold

\* lines 114-133
is_calibri(st) == NoBorders(st) /\ PlainAlignment(st) /\ CalibriFont(st, 9)

\* lines 136-153
is_calibri_11(st) ==
    NoBorders(st) /\ PlainAlignment(st) /\ CalibriFont(st, 11)

\* lines 157-176
is_calibri_bordered(st) ==
    /\ st.top = "thin" /\ st.bottom = "thin" /\ st.left = "thin"
    /\ st.right = "thin"
    /\ CalibriFont(st, 9)
    /\ st.horizontal = "center"
    /\ st.vertical \in {"none", "bottom"}
    /\ ~st.wrap_text

\* lines 180-207: the inline style
InlineStyle(st) ==
    LET style_props ==
            << <<Css["border-top"], get_border_css(st.top)>>,
               <<Css["border-bottom"], get_border_css(st.bottom)>>,
               <<Css["border-left"], get_border_css(st.left)>>,
               <<Css["border-right"], get_border_css(st.right)>> >>
            \o get_alignment_css(st)
            \o get_font_css(st)
            \o << <<Css["color"], Css["#000000"]>>,
                  <<Css["direction"], Css["ltr"]>>,
                  <<Css["padding"], Css["0px 3px 0px 3px"]>> >>
    IN  JoinWith([k \in 1..Len(style_props) |->
                     style_props[k][1] \o <<":", " ">> \o style_props[k][2]],
                 <<";", " ">>)

\* generate_cell_style with the 11pt class tested before the 9pt class
GenerateStyleMut(st) ==
    IF is_calibri_11(st) THEN Lit.CalibriCell11
    ELSE IF is_calibri(st) THEN Lit.CalibriCell
    ELSE IF is_calibri_bordered(st) THEN Lit.CalibriCellBordered
    ELSE InlineStyle(st)

\* generate_cell_style(cell)
generate_cell_style(st) ==
    IF is_calibri(st) THEN Lit.CalibriCell
    ELSE IF is_calibri_11(st) THEN Lit.CalibriCell11
    ELSE IF is_calibri_bordered(st) THEN Lit.CalibriCellBordered
    ELSE InlineStyle(st)

\* lines 235-252: f"{int(size * factor)}px", the factor in hundredths
Pixels(size, hundredths) == StrOfNat((size * hundredths) \div 100) \o Lit.Px

\* merged_ranges.get((row, col), {})
MergeInfo(merged_ranges, row, col) ==
    IF <<row, col>> \in DOMAIN merged_ranges
    THEN merged_ranges[<<row, col>>]
    ELSE [is_merged_root |-> FALSE, hidden |-> FALSE,
          colspan |-> 0, rowspan |-> 0]

IsHiddenMut(merge_info) == FALSE
\* line 299: merge_info.get('hidden')
IsHidden(merge_info) == merge_info.hidden

\* One appended string, kept with the place of the loops it was appended at.
Part(kind, row, col, text) ==
    [kind |-> kind, row |-> row, col |-> col, text |-> text]

\* lines 312-329: ' ' + ' '.join(cell_attrs)
AttrsStr(cell_style, merge_info) ==
    LET first == IF cell_style = Lit.CalibriCell THEN Lit.ClassCalibri
                 ELSE IF cell_style = Lit.CalibriCell11 THEN Lit.ClassCalibri11
                 ELSE IF cell_style = Lit.CalibriCellBordered
                 THEN Lit.ClassBordered
                 ELSE Lit.StyleOpen \o cell_style \o Lit.Quote
        cell_attrs ==
            <<first>>
            \o (IF merge_info.colspan # 0
                THEN <<Lit.ColspanOpen \o StrOfNat(merge_info.colspan)
                         \o Lit.Quote>>
                ELSE <<>>)
            \o (IF merge_info.rowspan # 0
                THEN <<Lit.RowspanOpen \o StrOfNat(merge_info.rowspan)
                         \o Lit.Quote>>
                ELSE <<>>)
    IN  <<" ">> \o JoinWith(cell_attrs, <<" ">>)

\* lines 294-331: the data cell of one coordinate, none when it is hidden
CellParts(sheet, merged_ranges, row, col) ==
    LET cell == sheet.cells[<<row, col>>]
        merge_info == MergeInfo(merged_ranges, row, col)
    IN  IF IsHidden(merge_info) THEN <<>>
        ELSE <<Part("td", row, col,
                    Lit.TdOpen
                    \o AttrsStr(generate_cell_style(cell.style), merge_info)
                    \o Lit.TagEnd \o DisplayValue(cell.value) \o Lit.TdClose)>>

\* lines 285-333: one row
RowParts(sheet, merged_ranges, row) ==
    LET height_style ==
            IF row \in DOMAIN sheet.row_heights
            THEN Lit.HeightOpen \o Pixels(sheet.row_heights[row], 133)
                   \o Lit.StyleEnd
            ELSE Lit.DefaultHeight
    IN  << Part("tr", row, 0, Lit.TrOpen \o height_style \o Lit.TagEnd),
           Part("th", row, 0, Lit.ThRowOpen \o StrOfNat(row) \o Lit.Quote
                                \o height_style \o Lit.ThRowClass),
           Part("div", row, 0,
                Lit.WrapperOpen \o StrOfNat(row) \o Lit.WrapperClose),
           Part("/th", row, 0, Lit.ThClose) >>
        \o Concat([col \in 1..sheet.max_column |->
                      CellParts(sheet, merged_ranges, row, col)])
        \o << Part("/tr", row, 0, Lit.TrClose) >>

\* lines 275-278: the header of one column
ColumnHeader(sheet, col) ==
    LET width_style ==
            IF col \in DOMAIN sheet.column_widths
            THEN Lit.WidthOpen \o Pixels(sheet.column_widths[col], 700)
                   \o Lit.StyleEnd
            ELSE <<>>
    IN  Part("colhead", 0, col,
             Lit.ThColOpen \o StrOfNat(col) \o Lit.Quote \o width_style
               \o Lit.ThColClass \o get_column_letter(col) \o Lit.ThClose)

\* line 264: the worksheet is one cell whose value is falsy
IsEmptyWorksheet(sheet) ==
    sheet.max_row = 1 /\ sheet.max_column = 1
        /\ Falsy(sheet.cells[<<1, 1>>].value)

\* convert_worksheet_to_html(worksheet): html_parts
convert_worksheet_to_html(sheet) ==
    LET merged_ranges == find_merged_ranges(sheet.merged)
    IN  IF IsEmptyWorksheet(sheet)
        THEN << Part("empty", 0, 0, Lit.EmptyWorksheet) >>
        ELSE << Part("open", 0, 0, Lit.DivOpen),
                Part("open", 0, 0, Lit.TableOpen),
                Part("open", 0, 0, Lit.TheadOpen),
                Part("corner", 0, 0, Lit.CornerTh) >>
             \o [col \in 1..sheet.max_column |-> ColumnHeader(sheet, col)]
             \o << Part("close", 0, 0, Lit.TheadClose),
                   Part("open", 0, 0, Lit.TbodyOpen) >>
             \o Concat([row \in 1..sheet.max_row |->
                           RowParts(sheet, merged_ranges, row)])
             \o << Part("close", 0, 0, Lit.TbodyClose),
                   Part("close", 0, 0, Lit.TableClose),
                   Part("close", 0, 0, Lit.WrapperClose) >>

\* '\n'.join(html_parts): the markup returned and written to the file
Markup(parts) ==
    JoinWith([k \in 1..Len(parts) |-> parts[k].text], <<"\n">>)

\* the end of the digits that start at position j of the text
RECURSIVE DigitsEnd(_, _)
DigitsEnd(text, j) ==
    IF j <= Len(text) /\ IsDigit(text[j]) THEN DigitsEnd(text, j + 1) ELSE j

\* id="row(\d+)" matches at position i of the text
MatchesAt(text, i) ==
    /\ text[i] = "i"
    /\ i + Len(Lit.IdRow) <= Len(text)
    /\ SubSeq(text, i, i + Len(Lit.IdRow) - 1) = Lit.IdRow
    /\ DigitsEnd(text, i + Len(Lit.IdRow)) > i + Len(Lit.IdRow)
    /\ DigitsEnd(text, i + Len(Lit.IdRow)) <= Len(text)
    /\ text[DigitsEnd(text, i + Len(Lit.IdRow))] = "\""

\* the members of a set of numbers, in ascending order
Ascend(S) ==
    [k \in 1..Cardinality(S) |->
        CHOOSE i \in S : Cardinality({j \in S : j < i}) = k - 1]

\* lines 579-587: [int(row_id) for row_id in re.findall(row_pattern, text)]
RowMatches(text) ==
    LET starts == Ascend({i \in 1..Len(text) : MatchesAt(text, i)})
    IN  [k \in 1..Len(starts) |->
            IntOfDigits(SubSeq(text, starts[k] + Len(Lit.IdRow),
                               DigitsEnd(text, starts[k] + Len(Lit.IdRow))
                                 - 1))]

ConvertWorksheetToHtml ==
    /\ r_pc = "idle"
    /\ html_parts' = convert_worksheet_to_html(worksheet)
    /\ r_pc' = "rendered"
    /\ UNCHANGED <<worksheet, counted>>
    /\ UNCHANGED <<chunkVars, geomVars, sheetVars, batchVars, nameVars>>
    /\ UNCHANGED extVars

\* count_html_rows on the file that holds the markup
CountHtmlRows ==
    /\ r_pc = "rendered"
    /\ counted' = count_html_rows(RowMatches(Markup(html_parts)))
    /\ r_pc' = "counted"
    /\ UNCHANGED <<worksheet, html_parts>>
    /\ UNCHANGED <<chunkVars, geomVars, sheetVars, batchVars, nameVars>>
    /\ UNCHANGED extVars

\* the styles of the cells: Calibri 11, Calibri 9, thin borders and centred,
\* a bold Arial, and a font whose name holds double quotes
StyleOf(side, horizontal, name, size, bold) ==
    [top |-> side, bottom |-> side, left |-> side, right |-> side,
     horizontal |-> horizontal, vertical |-> "none", wrap_text |-> FALSE,
     name |-> name, size |-> size, bold |-> bold]

QuotedFont ==
    <<"A", "\"", " ", "i", "d", "=", "\"", "r", "o", "w", "9", "\"", " ",
      "x", "=", "\"">>

\* the cells of the worksheets: no value, the numbers 0, 7 and 12.5, the
\* empty text, text, and text that reads like a row marker
CellPool ==
    { [value |-> PyNone, style |-> StyleOf("none", "none", PyStr(Lit.Calibri),
                                           PyFloat(11, 0), FALSE)],
      [value |-> PyInt(0), style |-> StyleOf("none", "none", PyStr(Lit.Calibri),
                                             PyFloat(11, 0), FALSE)],
      [value |-> PyStr(<<>>), style |-> StyleOf("none", "left", PyNone,
                                                PyNone, FALSE)],
      [value |-> PyInt(7), style |-> StyleOf("none", "left", PyStr(Lit.Calibri),
                                             PyFloat(9, 0), FALSE)],
      [value |-> PyFloat(125, 1),
       style |-> StyleOf("thin", "center", PyStr(Lit.Calibri), PyFloat(9, 0),
                         FALSE)],
      [value |-> PyStr(<<"a", "<", "b">>),
       style |-> StyleOf("thick", "right", PyStr(<<"A", "r", "i", "a", "l">>),
                         PyFloat(10, 0), TRUE)],
      [value |-> PyStr(<<"i", "d", "=", "\"", "r", "o", "w", "9", "\"">>),
       style |-> StyleOf("none", "none", PyStr(Lit.Calibri), PyFloat(11, 0),
                         FALSE)],
      [value |-> PyStr(<<"x">>),
       style |-> StyleOf("none", "none", PyStr(QuotedFont), PyFloat(11, 0),
                         FALSE)] }

\* the cells worksheet.cell() creates where the file has none
BlankCell ==
    [value |-> PyNone, style |-> StyleOf("none", "none", PyStr(Lit.Calibri),
                                         PyFloat(11, 0), FALSE)]

\* The worksheets rendered: one or two rows by one or two columns, at most
\* one merged range, one cell of the pool among blank cells or in every
\* place, the first row and column with or without a size of their own.
RenderPool ==
    { [max_row |-> dim[1], max_column |-> dim[2], merged |-> q,
       cells |-> [c \in (1..dim[1]) \X (1..dim[2]) |->
                     IF c = at \/ all THEN cell ELSE BlankCell],
       row_heights |-> IF sized THEN (1 :> 20) ELSE <<>>,
       column_widths |-> IF sized THEN (1 :> 12) ELSE <<>>] :
      dim \in {<<1, 1>>, <<1, 2>>, <<2, 1>>, <<2, 2>>},
      q \in SheetRanges(2, 2, 1),
      at \in (1..2) \X (1..2),
      cell \in CellPool,
      all \in BOOLEAN,
      sized \in BOOLEAN }

\* the merged ranges lie inside the worksheet, and a cell they hide holds
\* no value
WellFormed(sheet) ==
    /\ \A i \in 1..Len(sheet.merged) :
          CellsOf(sheet.merged[i])
              \subseteq (1..sheet.max_row) \X (1..sheet.max_column)
    /\ \A c \in DOMAIN sheet.cells :
          IsMergedCell(sheet, c) => sheet.cells[c].value = PyNone

InitRender ==
    /\ worksheet \in {sheet \in RenderPool : WellFormed(sheet)}
    /\ html_parts = <<>>
    /\ r_pc = "idle"
    /\ counted = 0
    /\ ChunkIdle /\ GeomIdle /\ SheetIdle /\ BatchIdle /\ NameIdle
    /\ ExtIdle

NextRender == ConvertWorksheetToHtml \/ CountHtmlRows

SpecRender == InitRender /\ [][NextRender]_vars


----------------------------------------------------------------------------
(* Claims about convert_worksheet_to_html.                                 *)

Rendered == r_pc \in {"rendered", "counted"}

\* a table was rendered, not the marker of an empty worksheet
IsTable == Rendered /\ html_parts[1].kind # "empty"

\* the data cells emitted for a coordinate
DataCells(row, col) ==
    {k \in 1..Len(html_parts) :
        /\ html_parts[k].kind = "td"
        /\ html_parts[k].row = row
        /\ html_parts[k].col = col}

\* pat occurs in text
Contains(text, pat) ==
    \E i \in 1..(Len(text) - Len(pat) + 1) :
        SubSeq(text, i, i + Len(pat) - 1) = pat

\* the width and the height of the merged range c is the top-left
\* coordinate of, 1 when it is that of none
WidthAt(c) ==
    IF \E i \in 1..Len(worksheet.merged) : TopLeft(worksheet.merged[i]) = c
    THEN LET r == worksheet.merged[CHOOSE i \in 1..Len(worksheet.merged) :
                                      TopLeft(worksheet.merged[i]) = c]
         IN  r.max_col - r.min_col + 1
    ELSE 1
HeightAt(c) ==
    IF \E i \in 1..Len(worksheet.merged) : TopLeft(worksheet.merged[i]) = c
    THEN LET r == worksheet.merged[CHOOSE i \in 1..Len(worksheet.merged) :
                                      TopLeft(worksheet.merged[i]) = c]
         IN  r.max_row - r.min_row + 1
    ELSE 1

\* the text of a data cell carries the span n under the attribute name,
\* and carries no such attribute when n is 1
CarriesSpan(text, attribute, n) ==
    IF n > 1 THEN Contains(text, attribute \o StrOfNat(n) \o Lit.Quote)
    ELSE ~Contains(text, attribute)

\* C18: in every row no data cell is emitted for a coordinate hidden by a
\* merged range and exactly one for every other coordinate of 1..max_col;
\* the cell of a range's top-left coordinate carries the range's width as
\* colspan and its height as rowspan when they exceed 1.
C18_OneDataCellPerVisibleCoordinate ==
    IsTable =>
        /\ \A row \in 1..worksheet.max_row :
              \A col \in 1..worksheet.max_column :
                 IF IsMergedCell(worksheet, <<row, col>>)
                 THEN DataCells(row, col) = {}
                 ELSE /\ Cardinality(DataCells(row, col)) = 1
                      /\ \A k \in DataCells(row, col) :
                            /\ CarriesSpan(html_parts[k].text, Lit.ColspanOpen,
                                           WidthAt(<<row, col>>))
                            /\ CarriesSpan(html_parts[k].text, Lit.RowspanOpen,
                                           HeightAt(<<row, col>>))
        /\ \A k \in 1..Len(html_parts) :
              html_parts[k].kind = "td" =>
                  /\ html_parts[k].row \in 1..worksheet.max_row
                  /\ html_parts[k].col \in 1..worksheet.max_column

\* A1:B1 is merged: one cell for A1 with colspan 2, none for B1
C18_Witness ==
    /\ IsTable
    /\ worksheet.merged = <<[min_row |-> 1, min_col |-> 1,
                             max_row |-> 1, max_col |-> 2]>>
    /\ Cardinality(DataCells(1, 1)) = 1
    /\ \A k \in DataCells(1, 1) :
          Contains(html_parts[k].text,
                   <<"c", "o", "l", "s", "p", "a", "n", "=", "\"", "2", "\"">>)
    /\ DataCells(1, 2) = {}

\* the cell is empty or absent
NoValue(v) == v \in {PyNone, PyStr(<<>>)}

\* C19: the empty-worksheet marker is returned if and only if the
\* worksheet is one row by one column and its cell is empty or absent; with
\* any present value there, the number 0 included, a table is rendered.
C19_MarkerIffSoleCellEmpty ==
    Rendered =>
        (Markup(html_parts) = Lit.EmptyWorksheet
            <=> /\ worksheet.max_row = 1
                /\ worksheet.max_column = 1
                /\ NoValue(worksheet.cells[<<1, 1>>].value))

\* C20: the markup of a worksheet that is not rendered as the marker holds
\* one row marker for each row 1..max_row, in this order, and no other, so
\* count_html_rows returns max_row for it.
C20_MarkersAreTheRows ==
    (r_pc = "counted" /\ IsTable) =>
        /\ RowMatches(Markup(html_parts))
              = [i \in 1..worksheet.max_row |-> i]
        /\ counted = worksheet.max_row

\* the same for the worksheets none of whose font names holds a double
\* quote, where it holds whatever the cell values
C20_MarkersAreTheRowsForPlainFonts ==
    (r_pc = "counted" /\ IsTable
        /\ \A c \in DOMAIN worksheet.cells :
              ~Contains(Str(worksheet.cells[c].style.name), Lit.Quote))
        => /\ RowMatches(Markup(html_parts))
                 = [i \in 1..worksheet.max_row |-> i]
           /\ counted = worksheet.max_row


----------------------------------------------------------------------------
(* generate_cell_style on its own: every combination of the attributes it  *)
(* reads.                                                                  *)

GenerateCellStyle ==
    /\ st_pc = "idle"
    /\ returned_style' = generate_cell_style(styled_cell)
    /\ st_pc' = "done"
    /\ UNCHANGED styled_cell
    /\ UNCHANGED <<chunkVars, geomVars, sheetVars, batchVars, nameVars,
                   renderVars>>
    /\ UNCHANGED <<flowVars, decodeVars, fileNameVars, mappingVars>>

\* the border styles, alignments and fonts of the cells: a side without a
\* style, thin or thick; a font size as openpyxl holds it, a float or None
StylePool ==
    [top : {"none", "thin", "thick"},
     bottom : {"none", "thin"},
     left : {"none", "thin"},
     right : {"none", "thin"},
     horizontal : {"none", "left", "center", "right"},
     vertical : {"none", "bottom", "center"},
     wrap_text : BOOLEAN,
     name : {PyNone, PyStr(Lit.Calibri), PyStr(<<"A", "r", "i", "a", "l">>)},
     size : {PyNone, PyFloat(9, 0), PyFloat(11, 0), PyFloat(10, 0)},
     bold : BOOLEAN]

InitStyle ==
    /\ styled_cell \in StylePool
    /\ returned_style = <<>>
    /\ st_pc = "idle"
    /\ ChunkIdle /\ GeomIdle /\ SheetIdle /\ BatchIdle /\ NameIdle
    /\ RenderIdle
    /\ FlowIdle /\ DecodeIdle /\ FileNameIdle /\ MappingIdle

NextStyle == GenerateCellStyle

SpecStyle == InitStyle /\ [][NextStyle]_vars

----------------------------------------------------------------------------
(* Claims about generate_cell_style.                                       *)

Sides == {"top", "bottom", "left", "right"}

\* a borderless cell, left or unset horizontally, bottom or unset
\* vertically, not wrapped, in Calibri or no named font, not bold, of the
\* given size or of no size
Plain(st, points) ==
    /\ \A side \in Sides : st[side] = "none"
    /\ st.horizontal \in {"none", "left"}
    /\ st.vertical \in {"none", "bottom"}
    /\ ~st.wrap_text
    /\ st.name \in {PyNone, PyStr(<<"C", "a", "l", "i", "b", "r", "i">>)}
    /\ st.size \in {PyNone, PyFloat(points, 0)}
    /\ ~st.bold

\* thin on all four sides, centred, bottom or unset vertically, not
\* wrapped, in the 9pt font of the plain class
BorderedCentered(st) ==
    /\ \A side \in Sides : st[side] = "thin"
    /\ st.horizontal = "center"
    /\ st.vertical \in {"none", "bottom"}
    /\ ~st.wrap_text
    /\ st.name \in {PyNone, PyStr(<<"C", "a", "l", "i", "b", "r", "i">>)}
    /\ st.size \in {PyNone, PyFloat(9, 0)}
    /\ ~st.bold

ClassNames ==
    { <<"c", "a", "l", "i", "b", "r", "i", "-", "c", "e", "l", "l">>,
      <<"c", "a", "l", "i", "b", "r", "i", "-", "c", "e", "l", "l", "-",
        "1", "1">>,
      <<"c", "a", "l", "i", "b", "r", "i", "-", "c", "e", "l", "l", "-",
        "b", "o", "r", "d", "e", "r", "e", "d">> }

IsInline(text) == text \notin ClassNames /\ Contains(text, <<":", " ">>)

\* C21: generate_cell_style answers every combination of attributes, and
\* the first class of the chain whose predicate holds wins: the plain 9pt
\* class whenever its predicate holds (so a plain cell of no font size is
\* 9pt, never 11pt), the plain 11pt class exactly when the 9pt predicate
\* fails and the 11pt one holds, the bordered class exactly when both fail
\* and the cell is thin on four sides and centred, an inline style exactly
\* when all three fail.
C21_FirstMatchWins ==
    st_pc = "done" =>
        LET st == styled_cell
            out == returned_style
            nine == <<"c", "a", "l", "i", "b", "r", "i", "-", "c", "e", "l",
                      "l">>
        IN  /\ out \in ClassNames \/ IsInline(out)
            /\ out = nine <=> Plain(st, 9)
            /\ out = nine \o <<"-", "1", "1">>
                   <=> ~Plain(st, 9) /\ Plain(st, 11)
            /\ out = nine \o <<"-", "b", "o", "r", "d", "e", "r", "e", "d">>
                   <=> ~Plain(st, 9) /\ ~Plain(st, 11) /\ BorderedCentered(st)
            /\ IsInline(out)
                   <=> ~Plain(st, 9) /\ ~Plain(st, 11)
                           /\ ~BorderedCentered(st)
            /\ (Plain(st, 9) /\ st.size = PyNone
                   => out # nine \o <<"-", "1", "1">>)

\* a plain cell of no font size, which both plain predicates accept, has
\* been classified
C21_Witness ==
    /\ st_pc = "done"
    /\ Plain(styled_cell, 9) /\ Plain(styled_cell, 11)
    /\ styled_cell.size = PyNone
    /\ returned_style
           = <<"c", "a", "l", "i", "b", "r", "i", "-", "c", "e", "l", "l">>

----------------------------------------------------------------------------
(* main: process_complete_workflow (the renderer, then process_all_files)  *)
(* and update_excel_from_json after it, whatever the workflow returned.    *)
(* Every workbook holds one worksheet, named so that the renderer and the  *)
(* applier agree on its file name; a worksheet stands for its files.       *)

\* lines 1019-1029: process_complete_workflow up to the Input_Folder test
ProcessCompleteWorkflow ==
    /\ f_pc = "main"
    /\ IF ~input_folder
       THEN workflow_success' = FALSE /\ f_pc' = "update"
       ELSE workflow_success' = workflow_success /\ f_pc' = "convert"
    /\ UNCHANGED <<input_folder, data_sources, api_key, output_folder,
                   excel_files, text_files, json_artifacts, html_files,
                   matches, pair_index, processed, outcomes, successful,
                   failed, saved_books>>
    /\ UNCHANGED <<chunkVars, geomVars, sheetVars, batchVars, nameVars,
                   renderVars>>
    /\ UNCHANGED <<styleVars, decodeVars, fileNameVars, mappingVars>>

\* lines 1031-1035: process_all_excel_files renders every worksheet of
\* every workbook; no rendered file ends the workflow
ProcessAllExcelFiles ==
    /\ f_pc = "convert"
    /\ html_files' = 1..excel_files
    /\ IF html_files' = {}
       THEN workflow_success' = FALSE /\ f_pc' = "update"
       ELSE workflow_success' = workflow_success /\ f_pc' = "analyze"
    /\ UNCHANGED <<input_folder, data_sources, api_key, output_folder,
                   excel_files, text_files, json_artifacts, matches,
                   pair_index, processed, outcomes, successful, failed,
                   saved_books>>
    /\ UNCHANGED <<chunkVars, geomVars, sheetVars, batchVars, nameVars,
                   renderVars>>
    /\ UNCHANGED <<styleVars, decodeVars, fileNameVars, mappingVars>>

\* find_matching_files: the rendered files with a text file of their name,
\* in the order glob lists them
Orders(S) ==
    {q \in SeqsUpTo(S, Cardinality(S)) :
        Len(q) = Cardinality(S) /\ {q[k] : k \in 1..Len(q)} = S}

find_matching_files(html, texts) == Orders(html \cap texts)

\* lines 936-964 of process_all_files: html_outputs exists, the renderer
\* made it; DATA_SOURCES, then the output directory is made, then the key,
\* then the matches
ProcessAllFiles ==
    /\ f_pc = "analyze"
    /\ IF ~data_sources
       THEN /\ workflow_success' = FALSE /\ f_pc' = "update"
            /\ UNCHANGED <<output_folder, matches, pair_index>>
       ELSE /\ output_folder' = TRUE
            /\ IF ~api_key
               THEN /\ workflow_success' = FALSE /\ f_pc' = "update"
                    /\ UNCHANGED <<matches, pair_index>>
               ELSE /\ matches' \in find_matching_files(html_files, text_files)
                    /\ IF matches' = <<>>
                       THEN /\ workflow_success' = FALSE /\ f_pc' = "update"
                            /\ UNCHANGED pair_index
                       ELSE /\ workflow_success' = workflow_success
                            /\ pair_index' = 1
                            /\ f_pc' = "loop"
    /\ UNCHANGED <<input_folder, data_sources, api_key, excel_files,
                   text_files, json_artifacts, html_files, processed,
                   outcomes, successful, failed, saved_books>>
    /\ UNCHANGED <<chunkVars, geomVars, sheetVars, batchVars, nameVars,
                   renderVars>>
    /\ UNCHANGED <<styleVars, decodeVars, fileNameVars, mappingVars>>

\* how a call of process_html_file_in_chunks ends: True with the
\* consolidated artifacts written, False, or an exception
PairOutcomes == {"True", "False", "raised"}

\* lines 970-986: one pass of the loop over the matches
ProcessPair ==
    /\ f_pc = "loop"
    /\ pair_index <= Len(matches)
    /\ \E outcome \in PairOutcomes :
          /\ processed' = Append(processed, matches[pair_index])
          /\ outcomes' = Append(outcomes, outcome)
          /\ IF outcome = "True"
             THEN /\ successful' = successful + 1
                  /\ failed' = failed
                  /\ json_artifacts'
                         = json_artifacts \cup {matches[pair_index]}
             ELSE /\ successful' = successful
                  /\ failed' = failed + 1
                  /\ json_artifacts' = json_artifacts
    /\ pair_index' = pair_index + 1
    /\ UNCHANGED <<input_folder, data_sources, api_key, output_folder,
                   excel_files, text_files, html_files, matches,
                   workflow_success, saved_books, f_pc>>
    /\ UNCHANGED <<chunkVars, geomVars, sheetVars, batchVars, nameVars,
                   renderVars>>
    /\ UNCHANGED <<styleVars, decodeVars, fileNameVars, mappingVars>>

\* the batch reported successful when no pair failed
BatchResultMut(succ, fail) == fail = 0

\* line 992: return successful > 0
BatchResult(succ, fail) == succ > 0

\* lines 988-992 and 1041-1054: the report, and the value handed to main
ReportAnalysis ==
    /\ f_pc = "loop"
    /\ pair_index > Len(matches)
    /\ workflow_success' = BatchResult(successful, failed)
    /\ f_pc' = "update"
    /\ UNCHANGED <<input_folder, data_sources, api_key, output_folder,
                   excel_files, text_files, json_artifacts, html_files,
                   matches, pair_index, processed, outcomes, successful,
                   failed, saved_books>>
    /\ UNCHANGED <<chunkVars, geomVars, sheetVars, batchVars, nameVars,
                   renderVars>>
    /\ UNCHANGED <<styleVars, decodeVars, fileNameVars, mappingVars>>

\* lines 1061-1070 of main: update_excel_from_json runs whatever the
\* workflow returned; it saves every workbook one of whose worksheets has
\* a JSON artifact in Output_folder
UpdateWorkbooks ==
    /\ f_pc = "update"
    /\ saved_books' = IF input_folder /\ output_folder
                      THEN (1..excel_files) \cap json_artifacts
                      ELSE {}
    /\ f_pc' = "done"
    /\ UNCHANGED <<input_folder, data_sources, api_key, output_folder,
                   excel_files, text_files, json_artifacts, html_files,
                   matches, pair_index, processed, outcomes, successful,
                   failed, workflow_success>>
    /\ UNCHANGED <<chunkVars, geomVars, sheetVars, batchVars, nameVars,
                   renderVars>>
    /\ UNCHANGED <<styleVars, decodeVars, fileNameVars, mappingVars>>

\* The directories as main finds them: a missing directory holds nothing;
\* Output_folder can hold the artifacts of an earlier run.
InitWorkflow ==
    /\ input_folder \in BOOLEAN /\ data_sources \in BOOLEAN
    /\ api_key \in BOOLEAN /\ output_folder \in BOOLEAN
    /\ excel_files \in 0..MaxBooks
    /\ ~input_folder => excel_files = 0
    /\ text_files \in SUBSET (1..MaxBooks)
    /\ ~data_sources => text_files = {}
    /\ json_artifacts \in SUBSET (1..MaxBooks)
    /\ ~output_folder => json_artifacts = {}
    /\ html_files = {}
    /\ matches = <<>>
    /\ pair_index = 0
    /\ processed = <<>> /\ outcomes = <<>>
    /\ successful = 0 /\ failed = 0
    /\ workflow_success = "none"
    /\ saved_books = {}
    /\ f_pc = "main"
    /\ ChunkIdle /\ GeomIdle /\ SheetIdle /\ BatchIdle /\ NameIdle
    /\ RenderIdle
    /\ StyleIdle /\ DecodeIdle /\ FileNameIdle /\ MappingIdle

NextWorkflow ==
    \/ ProcessCompleteWorkflow
    \/ ProcessAllExcelFiles
    \/ ProcessAllFiles
    \/ ProcessPair
    \/ ReportAnalysis
    \/ UpdateWorkbooks

SpecWorkflow == InitWorkflow /\ [][NextWorkflow]_vars

----------------------------------------------------------------------------
(* Claims about the start of a run and the loop over the files.            *)

StartupMissing == ~input_folder \/ ~data_sources \/ ~api_key

\* C22: when a required directory or the credential of the reasoning
\* service is missing as the run starts, the run does no work: it renders no
\* worksheet, hands no file to the window loop, and saves no workbook.
C22_HaltsBeforeAnyWork ==
    StartupMissing =>
        /\ html_files = {}
        /\ processed = <<>>
        /\ saved_books = {}

\* the part that holds: with something missing, no window is dispatched
C22_NothingDispatched == StartupMissing => processed = <<>>

\* C23: process_all_files hands every matched pair to the window loop once,
\* in the order of the matches and whatever the earlier pairs did (True,
\* False or an exception); while the loop runs the two counters add up to
\* the pairs handled, at its end to the number of matches, and the batch
\* is reported successful exactly when some pair returned True.
C23_EveryPairOnceAndCounted ==
    /\ f_pc = "loop" =>
          /\ processed = SubSeq(matches, 1, pair_index - 1)
          /\ Len(outcomes) = Len(processed)
          /\ successful + failed = Len(processed)
    /\ f_pc \in {"update", "done"} /\ matches # <<>> =>
          /\ processed = matches
          /\ \A j, k \in 1..Len(processed) :
                processed[j] = processed[k] => j = k
          /\ successful
                = Cardinality({k \in 1..Len(outcomes) : outcomes[k] = "True"})
          /\ successful + failed = Len(matches)
          /\ workflow_success
                = (\E k \in 1..Len(outcomes) : outcomes[k] = "True")

\* two pairs: the first raised, the second was still processed and
\* succeeded, and the batch is reported successful
C23_Witness ==
    /\ f_pc = "done"
    /\ Len(matches) = 2
    /\ outcomes = <<"raised", "True">>
    /\ successful = 1 /\ failed = 1
    /\ workflow_success = TRUE

----------------------------------------------------------------------------
(* Claims about the order of the calls within one file.                    *)

\* C24: within one file a window is handed to the reasoning service once,
\* failed or not; a call is made only when every earlier call has ended, and
\* its rows lie after the rows of every window called before it; when the
\* loop has run through, the calls made are the windows of the file, one
\* call each.
C24_Step ==
    /\ windows' # windows =>
          /\ Len(responses) = Len(windows)
          /\ Len(windows') = Len(windows) + 1
          /\ SubSeq(windows', 1, Len(windows)) = windows
          /\ LET w == windows'[Len(windows')]
             IN  /\ w[1] <= w[2]
                 /\ \A k \in 1..Len(windows) : windows[k][2] < w[1]
          /\ Len(responses') = Len(windows')
    /\ pc' = "save" =>
          /\ Len(windows') = CeilDiv(total_rows', chunk_size')
          /\ \A r \in 1..total_rows' :
                Cardinality({k \in 1..Len(windows') :
                                windows'[k][1] <= r /\ r <= windows'[k][2]})
                    = 1

C24_OneCallPerWindowInOrder == [][C24_Step]_vars

\* a window whose call failed is followed by the call of the next window,
\* not by a second call of its own
C24_Witness ==
    /\ Len(windows) = 2
    /\ responses[1].kind \in {"throw", "prose"}
    /\ windows[1][2] < windows[2][1]

----------------------------------------------------------------------------
(* The reading of an artifact: the list of encodings tried in order, in    *)
(* count_html_rows and in analyze_html_table_with_openai. Bytes are        *)
(* numbers below 256, text is a sequence of code points. The three- and    *)
(* four-byte forms of UTF-8 are left out: no artifact of the model holds   *)
(* one of their lead bytes.                                                *)

encodings_to_try == <<"utf-8", "latin-1", "cp1252", "iso-8859-1", "utf-16">>

\* UnicodeDecodeError, and the text of a decoding that went through
Undecodable == [ok |-> FALSE, text |-> <<>>]
DecodedAs(text) == [ok |-> TRUE, text |-> text]

RECURSIVE Utf8From(_, _, _)
Utf8From(bs, i, acc) ==
    IF i > Len(bs) THEN DecodedAs(acc)
    ELSE IF bs[i] < 128 THEN Utf8From(bs, i + 1, Append(acc, bs[i]))
    ELSE IF bs[i] \in 194..223 /\ i < Len(bs) /\ bs[i + 1] \in 128..191
    THEN Utf8From(bs, i + 2,
                  Append(acc, (bs[i] - 192) * 64 + (bs[i + 1] - 128)))
    ELSE Undecodable

\* latin-1 and its alias iso-8859-1: every byte is the code point
Latin1(bs) == DecodedAs(bs)

\* cp1252: five bytes stand for nothing, 27 for a code point of their own
Cp1252Table ==
    (128 :> 8364) @@ (130 :> 8218) @@ (131 :> 402) @@ (132 :> 8222)
    @@ (133 :> 8230) @@ (134 :> 8224) @@ (135 :> 8225) @@ (136 :> 710)
    @@ (137 :> 8240) @@ (138 :> 352) @@ (139 :> 8249) @@ (140 :> 338)
    @@ (142 :> 381) @@ (145 :> 8216) @@ (146 :> 8217) @@ (147 :> 8220)
    @@ (148 :> 8221) @@ (149 :> 8226) @@ (150 :> 8211) @@ (151 :> 8212)
    @@ (152 :> 732) @@ (153 :> 8482) @@ (154 :> 353) @@ (155 :> 8250)
    @@ (156 :> 339) @@ (158 :> 382) @@ (159 :> 376)

Cp1252(bs) ==
    IF \E i \in 1..Len(bs) : bs[i] \in {129, 141, 143, 144, 157}
    THEN Undecodable
    ELSE DecodedAs([i \in 1..Len(bs) |->
                      IF bs[i] \in DOMAIN Cp1252Table
                      THEN Cp1252Table[bs[i]] ELSE bs[i]])

\* utf-16: a byte order mark chooses the order, little endian without one;
\* an odd number of bytes or a surrogate without its partner is an error
RECURSIVE Utf16From(_, _, _)
Utf16From(units, i, acc) ==
    IF i > Len(units) THEN DecodedAs(acc)
    ELSE IF units[i] \notin 55296..57343
    THEN Utf16From(units, i + 1, Append(acc, units[i]))
    ELSE IF units[i] <= 56319 /\ i < Len(units)
             /\ units[i + 1] \in 56320..57343
    THEN Utf16From(units, i + 2,
                   Append(acc, 65536 + (units[i] - 55296) * 1024
                                  + (units[i + 1] - 56320)))
    ELSE Undecodable

Utf16(bs) ==
    LET little == Len(bs) >= 2 /\ bs[1] = 255 /\ bs[2] = 254
        big == Len(bs) >= 2 /\ bs[1] = 254 /\ bs[2] = 255
        body == IF little \/ big THEN SubSeq(bs, 3, Len(bs)) ELSE bs
        units == [k \in 1..(Len(body) \div 2) |->
                     IF big THEN body[2 * k - 1] * 256 + body[2 * k]
                     ELSE body[2 * k - 1] + body[2 * k] * 256]
    IN  IF Len(body) % 2 = 1 THEN Undecodable
        ELSE Utf16From(units, 1, <<>>)

\* file.read() under open(path, 'r', encoding=encoding)
Decode(encoding, bs) ==
    CASE encoding = "utf-8" -> Utf8From(bs, 1, <<>>)
      [] encoding \in {"latin-1", "iso-8859-1"} -> Latin1(bs)
      [] encoding = "cp1252" -> Cp1252(bs)
      [] encoding = "utf-16" -> Utf16(bs)

\* the loop over encodings_to_try and the test that follows it: the text of
\* the first encoding that decodes, ValueError when none does
RECURSIVE ReadFrom(_, _)
ReadFrom(bs, k) ==
    IF k > Len(encodings_to_try)
    THEN [raised |-> TRUE, encoding |-> "none", content |-> <<>>]
    ELSE LET d == Decode(encodings_to_try[k], bs)
         IN  IF d.ok
             THEN [raised |-> FALSE, encoding |-> encodings_to_try[k],
                   content |-> d.text]
             ELSE ReadFrom(bs, k + 1)

\* the read giving up after the first encoding
ReadWithFallbackMut(bs) ==
    LET d == Decode(encodings_to_try[1], bs)
    IN  IF d.ok
        THEN [raised |-> FALSE, encoding |-> encodings_to_try[1],
              content |-> d.text]
        ELSE [raised |-> TRUE, encoding |-> "none", content |-> <<>>]

ReadWithFallback(bs) == ReadFrom(bs, 1)

\* process_html_file_in_chunks on the next file of the batch, as far as the
\* read of its markup: a ValueError is caught at lines 696-698 and the file
\* returns False; the loop of process_all_files goes on to the next file
ReadArtifact ==
    /\ d_pc = "idle"
    /\ LET k == Len(read_results) + 1
           r == ReadWithFallback(artifact_bytes[k])
       IN  /\ read_results' = Append(read_results, r)
           /\ d_pc' = IF k = Len(artifact_bytes) THEN "done" ELSE "idle"
    /\ UNCHANGED artifact_bytes
    /\ UNCHANGED <<chunkVars, geomVars, sheetVars, batchVars, nameVars,
                   renderVars>>
    /\ UNCHANGED <<styleVars, flowVars, fileNameVars, mappingVars>>

\* the bytes of the artifacts: A, the two bytes of an e with acute accent
\* in UTF-8, a byte cp1252 has no character for, and 0xFF
BytePool == {65, 195, 169, 129, 255}

InitDecode ==
    /\ artifact_bytes \in (SeqsUpTo(BytePool, MaxBytes)
                             \X SeqsUpTo(BytePool, MaxBytes))
    /\ read_results = <<>>
    /\ d_pc = "idle"
    /\ ChunkIdle /\ GeomIdle /\ SheetIdle /\ BatchIdle /\ NameIdle
    /\ RenderIdle
    /\ StyleIdle /\ FlowIdle /\ FileNameIdle /\ MappingIdle

NextDecode == ReadArtifact

SpecDecode == InitDecode /\ [][NextDecode]_vars

----------------------------------------------------------------------------
(* Claims about the reading of the artifacts.                              *)

Decodes(encoding, bs) == Decode(encoding, bs).ok

\* C25: an artifact is read with the first encoding of the list utf-8,
\* latin-1, cp1252, iso-8859-1, utf-16 that decodes its bytes; the read
\* fails only when none of the five does; and a file whose read failed
\* does not keep the file after it from being read.
C25_FirstEncodingThatDecodes ==
    /\ encodings_to_try
           = <<"utf-8", "latin-1", "cp1252", "iso-8859-1", "utf-16">>
    /\ \A k \in 1..Len(read_results) :
          LET bs == artifact_bytes[k]
              r == read_results[k]
          IN  /\ r.raised =>
                    \A e \in 1..Len(encodings_to_try) :
                        ~Decodes(encodings_to_try[e], bs)
              /\ ~r.raised =>
                    \E e \in 1..Len(encodings_to_try) :
                        /\ r.encoding = encodings_to_try[e]
                        /\ Decodes(r.encoding, bs)
                        /\ r.content = Decode(r.encoding, bs).text
                        /\ \A earlier \in 1..(e - 1) :
                              ~Decodes(encodings_to_try[earlier], bs)
    /\ d_pc = "done" => Len(read_results) = Len(artifact_bytes)

\* the bytes 0xFF of the first file are not UTF-8 and were read as latin-1;
\* the second file, UTF-8 of two bytes, was read as one character
C25_Witness ==
    /\ d_pc = "done"
    /\ artifact_bytes = << <<255>>, <<195, 169>> >>
    /\ read_results[1]
           = [raised |-> FALSE, encoding |-> "latin-1", content |-> <<255>>]
    /\ read_results[2]
           = [raised |-> FALSE, encoding |-> "utf-8", content |-> <<233>>]

----------------------------------------------------------------------------
(* The file name convert_worksheet_to_separate_html gives the rendered     *)
(* worksheet, next to the name update_excel_from_json looks for.           *)

\* str.isalnum() of one character
IsAlnum(ch) == IsIn(Letters, ch) \/ IsIn(Lower, ch) \/ IsDigit(ch)

\* lines 437-438: the characters that are alphanumeric or one of ' ', '-',
\* '_', without the blanks at the end, every blank an underscore
SafeWorksheetName(worksheet_name) ==
    LET kept == SelectSeq(worksheet_name,
                          LAMBDA c : IsAlnum(c) \/ c \in {" ", "-", "_"})
    IN  Replace(RStrip(kept, Whitespace), " ", <<"_">>)

\* line 439, on to the artifact of lines 911-921 and 669: the name of the
\* rendered file with .json for .html
ArtifactName(base, worksheet_name) ==
    base \o <<"_">> \o SafeWorksheetName(worksheet_name)
         \o <<".", "j", "s", "o", "n">>

\* lines 232-235 of update_excel_from_json: json_filename
JsonFilename(workbook_name, name) ==
    workbook_name \o <<"_">> \o clean_sheet_name_for_json(name)
                  \o <<".", "j", "s", "o", "n">>

NameRenderedFile ==
    /\ fn_pc = "idle"
    /\ safe_worksheet_name' = SafeWorksheetName(sheet_name)
    /\ fn_pc' = "done"
    /\ UNCHANGED <<chunkVars, geomVars, sheetVars, batchVars, nameVars,
                   renderVars>>
    /\ UNCHANGED <<styleVars, flowVars, decodeVars, mappingVars>>

\* the renderer and the applier meet the same sheet name, each in its own
\* load of the workbook
InitFileNames ==
    /\ \E k \in 1..MaxNameLen : sheet_name \in [1..k -> NameChars]
    /\ cleaned = <<>>
    /\ n_pc = "idle"
    /\ safe_worksheet_name = <<>>
    /\ fn_pc = "idle"
    /\ ChunkIdle /\ GeomIdle /\ SheetIdle /\ BatchIdle /\ RenderIdle
    /\ StyleIdle /\ FlowIdle /\ DecodeIdle /\ MappingIdle

NextFileNames == NameRenderedFile \/ CleanSheetName

SpecFileNames == InitFileNames /\ [][NextFileNames]_vars

----------------------------------------------------------------------------
(* Claims about the names of the files.                                    *)

BaseNames == { <<"b">>, <<"b", "-", "1">> }

\* C26: for every workbook base name and every sheet name, the JSON file
\* the applier looks for is the artifact the reconciler made from the file
\* the renderer wrote: the renderer's sanitised sheet name and
\* clean_sheet_name_for_json are the same text.
C26_FileNamesAgree ==
    fn_pc = "done" /\ n_pc = "done" =>
        /\ safe_worksheet_name = cleaned
        /\ \A base \in BaseNames :
              ArtifactName(base, sheet_name) = JsonFilename(base, sheet_name)

\* what holds: the two agree on the names made of letters and single
\* blanks between them
C26_AgreeOnWords ==
    (/\ fn_pc = "done" /\ n_pc = "done"
     /\ \A i \in 1..Len(sheet_name) :
           \/ IsAlnum(sheet_name[i])
           \/ /\ sheet_name[i] = " "
              /\ 1 < i /\ i < Len(sheet_name)
              /\ IsAlnum(sheet_name[i - 1]))
        => safe_worksheet_name = cleaned

----------------------------------------------------------------------------
(* find_merged_ranges in the renderer and get_merged_cell_mapping in the   *)
(* applier, each on its own load of the same worksheet. The merged ranges  *)
(* of a worksheet do not overlap; the two loads may list them in different *)
(* orders.                                                                 *)

GetMergedCellMapping ==
    /\ m_pc = "idle"
    /\ applier_map' = get_merged_cell_mapping(applier_ranges)
    /\ m_pc' = "done"
    /\ UNCHANGED applier_ranges
    /\ UNCHANGED <<chunkVars, geomVars, sheetVars, batchVars, nameVars,
                   renderVars>>
    /\ UNCHANGED <<styleVars, flowVars, decodeVars, fileNameVars>>

\* the same ranges in any order
Reordered(q) ==
    {p \in [1..Len(q) -> {q[k] : k \in 1..Len(q)}] :
        \E f \in [1..Len(q) -> 1..Len(q)] :
            /\ \A i, j \in 1..Len(q) : f[i] = f[j] => i = j
            /\ \A i \in 1..Len(q) : p[i] = q[f[i]]}

InitMerged ==
    /\ g_ranges \in SheetRanges(GeoRows, GeoCols, MaxRanges)
    /\ g_map = <<>>
    /\ g_pc = "idle"
    /\ applier_ranges \in Reordered(g_ranges)
    /\ applier_map = <<>>
    /\ m_pc = "idle"
    /\ ChunkIdle /\ SheetIdle /\ BatchIdle /\ NameIdle
    /\ RenderIdle
    /\ StyleIdle /\ FlowIdle /\ DecodeIdle /\ FileNameIdle

NextMerged == FindMergedRanges \/ GetMergedCellMapping

SpecMerged == InitMerged /\ [][NextMerged]_vars

----------------------------------------------------------------------------
(* Claims about the two maps of the merged cells.                          *)

HiddenInRenderer(c) == c \in DOMAIN g_map /\ g_map[c].hidden
RootInRenderer(c) == c \in DOMAIN g_map /\ g_map[c].is_merged_root

\* C27: on every worksheet the renderer's map and the applier's map agree:
\* a coordinate is hidden in the one exactly when the other maps it to a
\* different coordinate, a merged root exactly when it is mapped to
\* itself, and absent from both or from neither; so every coordinate the
\* renderer leaves out is redirected to a coordinate the renderer emitted.
C27_MapsAgree ==
    g_pc = "done" /\ m_pc = "done" =>
        /\ DOMAIN g_map = DOMAIN applier_map
        /\ \A c \in (1..GeoRows) \X (1..GeoCols) :
              /\ HiddenInRenderer(c)
                    <=> (c \in DOMAIN applier_map /\ applier_map[c] # c)
              /\ RootInRenderer(c)
                    <=> (c \in DOMAIN applier_map /\ applier_map[c] = c)
              /\ HiddenInRenderer(c) => ~HiddenInRenderer(applier_map[c])

\* two merged ranges, listed in one order for the renderer and in the other
\* for the applier, with a coordinate the renderer hides
C27_Witness ==
    /\ g_pc = "done" /\ m_pc = "done"
    /\ Len(g_ranges) = 2
    /\ applier_ranges # g_ranges
    /\ \E c \in DOMAIN g_map :
          HiddenInRenderer(c) /\ RootInRenderer(applier_map[c])

----------------------------------------------------------------------------
(* Claims about the rows of the patches of a window.                       *)

RowOfPatch(p) == coordinate_to_tuple(p.cell_reference.s)[1]

\* C28: every patch the window of rows row_start..row_end contributes to
\* the PatchSet refers to a row of row_start..row_end, so the patches of
\* different windows refer to different rows.
C28_PatchesWithinWindow ==
    \A k \in 1..Len(responses) :
        Parsed(k) =>
            \A i \in 1..Len(responses[k].patches) :
                /\ windows[k][1] <= RowOfPatch(responses[k].patches[i])
                /\ RowOfPatch(responses[k].patches[i]) <= windows[k][2]

----------------------------------------------------------------------------
(* Claims about several patches for one cell.                              *)

\* the coordinate a valid patch is written at: the one its reference names,
\* or the top-left coordinate of the merged range that one lies in
TargetOf(p) ==
    LET c == coordinate_to_tuple(UpperStr(p.cell_reference.s))
    IN  IF Subordinate(c) THEN GoverningOf(c) ELSE c

\* the patch is valid on the worksheet: it is complete, its reference has
\* the shape of one, and the cell it resolves to can be written
WrittenAlone(p, mapping) ==
    /\ ~Incomplete(p)
    /\ ~InvalidReference(p)
    /\ CanWrite(ws, resolve_merged_cell_reference(p.cell_reference.s, mapping))

\* C29: valid patches of one list that resolve to the same coordinate, by
\* the same reference or by references of one merged range, are applied
\* in the order of the list, each counted as an update, and the cell holds
\* the coerced value of the last of them.
C29_LastPatchWins ==
    applications = 1 =>
        LET mapping == get_merged_cell_mapping(ws.merged)
            valid == {i \in 1..Len(cell_data) :
                         WrittenAlone(cell_data[i], mapping)}
        IN  /\ updates_made = Cardinality(valid)
            /\ Len(write_log) = Cardinality(valid)
            /\ {write_log[a].index : a \in 1..Len(write_log)} = valid
            /\ \A a, b \in 1..Len(write_log) :
                  a < b => write_log[a].index < write_log[b].index
            /\ \A i \in valid :
                  (\A j \in valid :
                      j > i => TargetOf(cell_data[j]) # TargetOf(cell_data[i]))
                  => ws.cells[TargetOf(cell_data[i])]
                         = Coerce(cell_data[i].value)

\* two patches with different references and different values, both
\* written to the top-left cell of the merged range, which holds the second
C29_Witness ==
    /\ applications = 1
    /\ Len(cell_data) = 2
    /\ cell_data[1].cell_reference # cell_data[2].cell_reference
    /\ \A i \in 1..2 :
          WrittenAlone(cell_data[i], get_merged_cell_mapping(ws.merged))
    /\ TargetOf(cell_data[1]) = TargetOf(cell_data[2])
    /\ updates_made = 2
    /\ Coerce(cell_data[1].value) # Coerce(cell_data[2].value)
    /\ ws.cells[TargetOf(cell_data[1])] = Coerce(cell_data[2].value)

----------------------------------------------------------------------------
(* Claims about the files of the windows.                                  *)

\* C30: when process_html_file_in_chunks has returned, no file of a window
\* is left in the output area: the _chunk_k .txt, .json, .csv and .xlsx of
\* every window, failed or not, have been removed.
C30_NoChunkFileLeft == pc = "done" => chunk_files = {}

\* what holds: no .json of a parsed window is left, and no .xlsx at all
C30_ParsedWindowsLeaveNoJson ==
    \A f \in chunk_files :
        /\ f[2] # "xlsx"
        /\ f[2] \in {"json", "txt"} => ~Parsed(f[1])

====
